---- MODULE Spec2Model ----
(***************************************************************************)
(* prompt-scanner: the heuristic classifier (scanner/heuristics.go) and    *)
(* the concurrent directory scan (scanner/scanner.go).                     *)
(*                                                                         *)
(* Texts are TLA+ strings; TLC evaluates Len, SubSeq and \o on them, so a  *)
(* Go string is modelled byte for byte (ASCII only).                       *)
(***************************************************************************)
EXTENDS Integers, Sequences, FiniteSets, TLC

(***************************************************************************)
(* Go's strings package, as far as the classifier uses it.                 *)
(***************************************************************************)
Char(s, i) == IF i \in 1..Len(s) THEN SubSeq(s, i, i) ELSE ""

SetMin(S) == CHOOSE x \in S : \A y \in S : x <= y

\* the element of a one-element set
Only(S) == CHOOSE x \in S : TRUE

UpperAlpha == "ABCDEFGHIJKLMNOPQRSTUVWXYZ"

LowerAlpha == "abcdefghijklmnopqrstuvwxyz"

Digits == "0123456789"

\* the bytes of a string, as a set
Bytes(alphabet) == {Char(alphabet, i) : i \in 1..Len(alphabet)}

UpperSet == Bytes(UpperAlpha)

LowerTable ==
    [c \in UpperSet |-> Char(LowerAlpha, CHOOSE i \in 1..Len(UpperAlpha) : Char(UpperAlpha, i) = c)]

LowerChar(c) == IF c \in UpperSet THEN LowerTable[c] ELSE c

\* bytes i..j of s, lowered (split in halves to keep the recursion shallow)
RECURSIVE LowerRange(_, _, _)
LowerRange(s, i, j) ==
    IF i > j THEN ""
    ELSE IF i = j THEN LowerChar(Char(s, i))
    ELSE Only({ LowerRange(s, i, mid) \o LowerRange(s, mid + 1, j) : mid \in {(i + j) \div 2} })

\* strings.ToLower
ToLower(s) == Only({ LowerRange(str, 1, Len(str)) : str \in {s} })

IsSpace(c) == c \in {" ", "\t", "\n", "\r", "\f"}

\* strings.TrimSpace
TrimSpace(s) ==
    Only({ LET Kept(i) == ~IsSpace(Char(str, i))
               Blank(i, j) == \A k \in i..j : ~Kept(k)
           IN  IF Blank(1, Len(str)) THEN ""
               ELSE SubSeq(str, CHOOSE i \in 1..Len(str) : Kept(i) /\ Blank(1, i - 1),
                                CHOOSE j \in 1..Len(str) : Kept(j) /\ Blank(j + 1, Len(str))) :
           str \in {s} })

\* strings.HasPrefix
HasPrefix(s, p) ==
    \E str \in {s}, prefix \in {p} :
        Len(prefix) <= Len(str) /\ SubSeq(str, 1, Len(prefix)) = prefix

\* strings.Contains
Contains(s, sub) ==
    \E str \in {s}, substr \in {sub} :
        \E i \in 1..(Len(str) - Len(substr) + 1) : SubSeq(str, i, i + Len(substr) - 1) = substr

\* strings.ContainsAny
ContainsAny(s, chars) ==
    \E str \in {s}, set \in {Bytes(chars)} : \E i \in 1..Len(str) : Char(str, i) \in set

\* utils.CountNewlines
CountNewlines(s) == Only({ Cardinality({i \in 1..Len(str) : Char(str, i) = "\n"}) : str \in {s} })

\* n bytes of filler
RECURSIVE Pad(_)
Pad(n) ==
    IF n <= 0 THEN ""
    ELSE IF n % 2 = 1 THEN Pad(n - 1) \o "x"
    ELSE LET half == Pad(n \div 2) IN half \o half

SeqToSet(q) == {q[i] : i \in 1..Len(q)}

(***************************************************************************)
(* Defaults (scanner/defaults.go) and the classifier's fixed tables.       *)
(***************************************************************************)
DefaultMinLength == 30

DefaultVarKeywordsList ==
    << "prompt", "template", "system_message", "user_message", "instruction",
       "persona", "query", "question", "task_description", "context_str" >>

DefaultContentKeywordsList ==
    << "you are a", "you are an", "you are the", "act as", "from the following",
       "from this", "your task is to", "you need to", "break down", "translate the",
       "summarize the", "given the", "answer the following question",
       "extract entities from", "generate code for", "what is the", "explain the",
       "act as a", "respond with", "based on the provided text", "here's", "here is",
       "here are", "consider this", "consider the following", "analyze this",
       "analyze the following" >>

PatBrace == "\\{[^{}]*?\\}"

PatDoubleBrace == "\\{\\{[^{}]*?\\}\\}"

PatAngle == "<[^<>]*?>"

PatDollar == "\\$[A-Z_][A-Z0-9_]*"

PatPercent == "\\%[sdfeuxg]"

PatBracket == "\\[[A-Z_]+\\]"

DefaultPlaceholderPatternsList ==
    << PatBrace, PatDoubleBrace, PatAngle, PatDollar, PatPercent, PatBracket >>

loggingMethodNames ==
    { "log", "info", "warn", "warning", "error", "debug", "fatal", "trace", "print",
      "println", "printf", "exception", "verbose", "notice", "critical", "alert",
      "emerg", "emergency", "write" }

\* variant: the receiver list without "logger"
loggingReceiverNamesWithoutLogger ==
    { "log", "logging", "console", "fmt", "logrus", "zap", "zerolog",
      "tracer", "stderr", "stdout", "process", "window", "self" }

loggingReceiverNames ==
    { "log", "logger", "logging", "console", "fmt", "logrus", "zap", "zerolog",
      "tracer", "stderr", "stdout", "process", "window", "self" }

logMessagePrefixes ==
    << "error:", "error ", "warning:", "warning ", "info:", "info ", "debug:", "debug ",
       "failed to", "unable to", "could not", "exception:", "uncaught", "unhandled",
       "trace:", "notice:", "critical:", "alert:", "emerg:", "emergency:" >>

\* len(text) < 150 in the log-message-prefix exclusion
LogPrefixMaxLen == 150

\* len(text) < 150 in the throw exclusion
ThrowMaxLen == 150

\* len(text) < 200 in the logging-method exclusion
LogMethodMaxLen == 200

\* len(text) < 100 in the logging-receiver exclusion
LogReceiverMaxLen == 100

VarScore == 3

ContentScore == 2

PlaceholderScore == 2

MultiLineScore == 1

LengthScore == 1

ScoreWithLength == 2

ScoreAlone == 3

LongStringFactor == 3

LongStringMaxScore == 2

(***************************************************************************)
(* The regular expressions of compileMatchers, by what Go's regexp does    *)
(* with them (leftmost match, alternatives tried in order).  Keywords are  *)
(* plain words: the keyword sets of this model hold no regexp operator.    *)
(***************************************************************************)
\* \w
WordSet == Bytes(UpperAlpha \o LowerAlpha \o Digits \o "_")

\* [A-Z_]
UpperUnderscoreSet == Bytes(UpperAlpha \o "_")

\* [A-Z0-9_]
UpperDigitUnderscoreSet == Bytes(UpperAlpha \o Digits \o "_")

\* [sdfeuxg]
FormatVerbSet == Bytes("sdfeuxg")

\* \s
SpaceSet == {" ", "\t", "\n", "\r", "\f"}

\* \b between bytes i-1 and i of s
WordBoundary(s, i) == (Char(s, i - 1) \in WordSet) # (Char(s, i) \in WordSet)

\* number of consecutive bytes of s from i on that belong to class
RunLen(s, i, class) ==
    IF i > Len(s) THEN 0
    ELSE IF \A j \in i..Len(s) : Char(s, j) \in class THEN Len(s) - i + 1
    ELSE (CHOOSE j \in i..Len(s) :
             Char(s, j) \notin class /\ \A k \in i..(j - 1) : Char(s, k) \in class) - i

\* open [^open close]*? close, matched at i: its length, 0 for no match
DelimLen(s, i, open, close) ==
    LET stops == {j \in (i + 1)..Len(s) : Char(s, j) \in {open, close}}
        run == IF stops = {} THEN Len(s) - i ELSE SetMin(stops) - (i + 1)
    IN  IF Char(s, i) = open /\ Char(s, i + 1 + run) = close THEN run + 2 ELSE 0

\* the length of the match of placeholder pattern pat at byte i of s, 0 for none
PlaceholderLenAt(pat, s, i) ==
    CASE pat = PatBrace -> DelimLen(s, i, "{", "}")
      [] pat = PatAngle -> DelimLen(s, i, "<", ">")
      [] pat = PatDoubleBrace ->
            LET inner == DelimLen(s, i + 1, "{", "}")
            IN  IF Char(s, i) = "{" /\ inner > 0 /\ Char(s, i + 1 + inner) = "}"
                THEN inner + 2 ELSE 0
      [] pat = PatDollar ->
            IF Char(s, i) = "$" /\ Char(s, i + 1) \in UpperUnderscoreSet
            THEN 2 + RunLen(s, i + 2, UpperDigitUnderscoreSet) ELSE 0
      [] pat = PatPercent ->
            IF Char(s, i) = "%" /\ Char(s, i + 1) \in FormatVerbSet THEN 2 ELSE 0
      [] pat = PatBracket ->
            LET run == RunLen(s, i + 1, UpperUnderscoreSet)
            IN  IF Char(s, i) = "[" /\ run >= 1 /\ Char(s, i + 1 + run) = "]"
                THEN run + 2 ELSE 0
      [] OTHER -> 0

\* (*regexp.Regexp).FindString for a placeholder pattern: "" for no match
PlaceholderFindString(pat, s) ==
    IF \A i \in 1..Len(s) : PlaceholderLenAt(pat, s, i) = 0 THEN ""
    ELSE Only({ SubSeq(s, first, first + PlaceholderLenAt(pat, s, first) - 1) :
                first \in { CHOOSE i \in 1..Len(s) :
                               /\ PlaceholderLenAt(pat, s, i) > 0
                               /\ \A j \in 1..(i - 1) : PlaceholderLenAt(pat, s, j) = 0 } })

\* compileMatchers: the non-empty placeholder patterns, in order
RECURSIVE compiledPlaceholders(_)
compiledPlaceholders(patterns) ==
    IF patterns = << >> THEN << >>
    ELSE (IF Head(patterns) = "" THEN << >> ELSE << Head(patterns) >>)
         \o compiledPlaceholders(Tail(patterns))

\* the first compiled placeholder pattern that matches s: its match, "" for none
\* variant: placeholder matching that never finds anything
NoPlaceholderMatch(patterns, s) == ""

FirstPlaceholderMatch(patterns, s) ==
    Only({ IF \A k \in 1..Len(found) : found[k] = "" THEN ""
           ELSE found[CHOOSE k \in 1..Len(found) :
                         found[k] # "" /\ \A j \in 1..(k - 1) : found[j] = ""] :
           found \in { [k \in 1..Len(ps) |-> PlaceholderFindString(ps[k], s)] :
                       ps \in {compiledPlaceholders(patterns)} } })

\* the keywords lowered, in order
RECURSIVE LowerAll(_)
LowerAll(kws) ==
    IF kws = << >> THEN << >> ELSE << ToLower(Head(kws)) >> \o LowerAll(Tail(kws))

\* the alternatives of (?i)(k1|k2|...) that match at byte i of s, in order of
\* preference; low is s lowered, lowKws the keywords lowered
KeywordsAt(lowKws, s, low, i, bounded) ==
    {k \in 1..Len(lowKws) :
        /\ i + Len(lowKws[k]) - 1 <= Len(s)
        /\ SubSeq(low, i, i + Len(lowKws[k]) - 1) = lowKws[k]
        /\ bounded => (WordBoundary(s, i) /\ WordBoundary(s, i + Len(lowKws[k])))}

\* the leftmost match in s of the lowered keywords, the first alternative winning
KeywordFindIn(lowKws, s, low, bounded) ==
    Only({ IF at = {} THEN ""
           ELSE LET i == SetMin(at)
                    k == SetMin(KeywordsAt(lowKws, s, low, i, bounded))
                IN  SubSeq(s, i, i + Len(lowKws[k]) - 1) :
           at \in { {i \in 1..Len(s) : KeywordsAt(lowKws, s, low, i, bounded) # {}} } })

\* (?i)(k1|k2|...), with \b on both sides when bounded: FindString(s), "" for no match.
\* (The one-element sets bind each value once.)
KeywordFindString(kws, s, bounded) ==
    Only({ KeywordFindIn(lowKws, s, low, bounded) :
           low \in {ToLower(s)}, lowKws \in {LowerAll(kws)} })

\* compiledVarKeywords.FindString: (?i)\b(k1|k2|...)\b, nil for no keyword
VarKeywordFindString(kws, name) == KeywordFindString(kws, name, TRUE)

\* compiledContentWords.FindString: (?i)(k1|k2|...), nil for no keyword
ContentWordFindString(kws, text) == KeywordFindString(kws, text, FALSE)

\* some compiledLogMessagePrefixes[k] = (?i)^\s*prefix matches text
LogPrefixMatches(text) ==
    \E low \in {ToLower(text)} :
    \E start \in {RunLen(low, 1, SpaceSet) + 1} :
    \E k \in 1..Len(logMessagePrefixes) :
        /\ start + Len(logMessagePrefixes[k]) - 1 <= Len(low)
        /\ SubSeq(low, start, start + Len(logMessagePrefixes[k]) - 1) = logMessagePrefixes[k]

(***************************************************************************)
(* regexp.Compile, as far as it can fail: the syntax checks of Go's parser *)
(* for groups, character classes, escapes and repetition operators.  The   *)
(* scan keeps the position i, the number of open groups, the position of   *)
(* the "[" of an open class (0 for none) and what precedes i: nothing      *)
(* ("none"), a "(" ("open"), the flags of a "(?" group ("flags"), an       *)
(* operand ("atom"), a repetition ("quant") or a lazy repetition ("lazy"). *)
(***************************************************************************)
RegexpStart == [ ok |-> TRUE, i |-> 1, depth |-> 0, classAt |-> 0, prev |-> "none" ]

RegexpError == [ ok |-> FALSE, i |-> 0, depth |-> 0, classAt |-> 0, prev |-> "none" ]

\* the parser's state after the token at st.i
RegexpStep(p, st) ==
    LET c == Char(p, st.i)
        To(n, depth, classAt, prev) ==
            [ ok |-> TRUE, i |-> st.i + n, depth |-> depth, classAt |-> classAt, prev |-> prev ]
        FirstInClass == \/ st.i = st.classAt + 1
                        \/ st.i = st.classAt + 2 /\ Char(p, st.classAt + 1) = "^"
    IN  IF c = "\\"
        THEN (IF st.i = Len(p) THEN RegexpError   \* trailing backslash
              ELSE To(2, st.depth, st.classAt, IF st.classAt = 0 THEN "atom" ELSE st.prev))
        ELSE IF st.classAt > 0
        THEN (IF c = "]" /\ ~FirstInClass THEN To(1, st.depth, 0, "atom")
              ELSE To(1, st.depth, st.classAt, st.prev))
        ELSE IF st.prev = "flags"
        THEN (IF c = ")" THEN To(1, st.depth - 1, 0, "none")
              ELSE IF c = ":" THEN To(1, st.depth, 0, "none")
              ELSE To(1, st.depth, 0, "flags"))
        ELSE IF c = "[" THEN To(1, st.depth, st.i, st.prev)
        ELSE IF c = "(" THEN To(1, st.depth + 1, 0, "open")
        ELSE IF c = ")"
        THEN (IF st.depth = 0 THEN RegexpError    \* unexpected )
              ELSE To(1, st.depth - 1, 0, "atom"))
        ELSE IF c = "|" THEN To(1, st.depth, 0, "none")
        ELSE IF c \in { "*", "+", "?" }
        THEN (IF st.prev = "atom" THEN To(1, st.depth, 0, "quant")
              ELSE IF st.prev = "quant" /\ c = "?" THEN To(1, st.depth, 0, "lazy")
              ELSE IF st.prev = "open" /\ c = "?" THEN To(1, st.depth, 0, "flags")
              ELSE RegexpError)                   \* missing argument to repetition operator
        ELSE To(1, st.depth, 0, "atom")

RECURSIVE RegexpScan(_, _)
RegexpScan(p, st) ==
    IF ~st.ok THEN FALSE
    ELSE IF st.i > Len(p) THEN st.depth = 0 /\ st.classAt = 0 /\ st.prev # "flags"
    ELSE \E next \in {RegexpStep(p, st)} : RegexpScan(p, next)

\* regexp.Compile(p) returns no error
RegexpCompiles(p) == \E pattern \in {p} : RegexpScan(pattern, RegexpStart)

\* strings.Join
RECURSIVE Join(_, _)
Join(elems, sep) ==
    IF elems = << >> THEN ""
    ELSE IF Len(elems) = 1 THEN elems[1]
    ELSE elems[1] \o sep \o Join(Tail(elems), sep)

\* variant: compileMatchers that skips a placeholder pattern it cannot compile
compileMatchersSkippingBrokenPlaceholders(opts) ==
    \/ /\ Len(opts.VariableKeywords) > 0
       /\ ~RegexpCompiles("(?i)\\b(" \o Join(opts.VariableKeywords, "|") \o ")\\b")
    \/ /\ Len(opts.ContentKeywords) > 0
       /\ ~RegexpCompiles("(?i)(" \o Join(opts.ContentKeywords, "|") \o ")")

\* ScanOptions.compileMatchers: TRUE when it returns an error.  (The log message
\* prefixes are quoted with regexp.QuoteMeta and always compile.)
compileMatchers(opts) ==
    \/ /\ Len(opts.VariableKeywords) > 0
       /\ ~RegexpCompiles("(?i)\\b(" \o Join(opts.VariableKeywords, "|") \o ")\\b")
    \/ /\ Len(opts.ContentKeywords) > 0
       /\ ~RegexpCompiles("(?i)(" \o Join(opts.ContentKeywords, "|") \o ")")
    \/ \E k \in 1..Len(opts.PlaceholderPatterns) :
          /\ opts.PlaceholderPatterns[k] # ""
          /\ ~RegexpCompiles(opts.PlaceholderPatterns[k])

(***************************************************************************)
(* Scanner.IsPotentialPrompt.  The result carries the decision, the match  *)
(* fields of the FoundPrompt as they stand when the function returns, and  *)
(* the return statement that decided (rule).                               *)
(***************************************************************************)
Verdict(accept, rule, var, word, ph) ==
    [ accept |-> accept, rule |-> rule, MatchedVariableName |-> var,
      MatchedContentWord |-> word, MatchedPlaceholder |-> ph ]

IsMultiLine(ctx) == ctx.IsMultiLineExplicit \/ ctx.LinesInContent > 1

\* the branch for Greedy = false
StrictPrompt(opts, ctx, text) ==
    LET kws == opts.ContentKeywords
    IN  Only({ IF starts # {}
               THEN Verdict(TRUE, "strict_prefix", "", kws[SetMin(starts)], "")
               ELSE IF IsMultiLine(ctx) /\ holds # {}
               THEN Verdict(TRUE, "strict_contains", "", kws[SetMin(holds)], "")
               ELSE Verdict(FALSE, "strict_none", "", "", "") :
               starts \in { {k \in 1..Len(kws) : HasPrefix(lowerText, ToLower(kws[k]))} :
                            lowerText \in {ToLower(text)} },
               holds \in { {k \in 1..Len(kws) : Contains(lowerText, ToLower(kws[k]))} :
                           lowerText \in {ToLower(text)} } })

\* the condition of the throw exclusion on the lowered call names
IsThrowCall(lowerFuncName, lowerReceiverName) ==
    \/ lowerFuncName = "error" /\ lowerReceiverName \in {"", "new"}
    \/ lowerFuncName = "throw"
    \/ lowerReceiverName = "" /\ lowerFuncName = "throw_literal"

\* the hard exclusions of the Greedy = true branch: the rule that rejects, "" for none
GreedyExclusion(opts, ctx, text) ==
    Only({
        IF LogPrefixMatches(text) /\ Len(text) < LogPrefixMaxLen /\ ~placeholderFound
        THEN "log_prefix"
        ELSE IF lowerFuncName = "" THEN ""
        ELSE IF /\ IsThrowCall(lowerFuncName, lowerReceiverName)
                /\ Len(text) < ThrowMaxLen /\ ~Contains(text, "{")
        THEN "throw"
        ELSE IF /\ lowerFuncName \in loggingMethodNames
                /\ Len(text) < LogMethodMaxLen /\ ~placeholderFound
        THEN "logging_method"
        ELSE IF /\ lowerReceiverName \in loggingReceiverNames
                /\ (lowerFuncName \in loggingMethodNames \/ lowerFuncName = "write")
                /\ Len(text) < LogReceiverMaxLen /\ ~Contains(text, "{")
        THEN "logging_receiver"
        ELSE "" :
        placeholderFound \in {FirstPlaceholderMatch(opts.PlaceholderPatterns, text) # ""},
        lowerFuncName \in {ToLower(ctx.InvocationFunctionName)},
        lowerReceiverName \in {ToLower(ctx.InvocationReceiverName)} })

\* the scoring of the Greedy = true branch, once no exclusion fired
GreedyScore(opts, ctx, text) ==
    Only({
        LET isLongEnough == Len(text) >= opts.MinLength
            isMultiLine == IsMultiLine(ctx)
            score == (IF var # "" THEN VarScore ELSE 0)
                     + (IF word # "" THEN ContentScore ELSE 0)
                     + (IF ph # "" THEN PlaceholderScore ELSE 0)
                     + (IF isMultiLine THEN MultiLineScore ELSE 0)
                     + (IF isLongEnough THEN LengthScore ELSE 0)
        IN
        IF var # "" /\ (isLongEnough \/ isMultiLine \/ word # "" \/ ph # "")
        THEN Verdict(TRUE, "var_plus", var, word, ph)
        ELSE IF word # "" /\ (isLongEnough \/ isMultiLine \/ ph # "")
        THEN Verdict(TRUE, "content_plus", var, word, ph)
        ELSE IF ph # "" /\ (isLongEnough \/ isMultiLine)
        THEN Verdict(TRUE, "placeholder_plus", var, word, ph)
        ELSE IF isMultiLine /\ isLongEnough /\ score >= 1
        THEN Verdict(TRUE, "multiline_long", var, word, ph)
        ELSE IF isLongEnough /\ (word # "" \/ ph # "")
        THEN Verdict(TRUE, "long_signal", var, word, ph)
        ELSE IF score >= ScoreWithLength /\ isLongEnough
        THEN Verdict(TRUE, "score_long", var, word, ph)
        ELSE IF score >= ScoreAlone
        THEN Verdict(TRUE, "score_alone", var, word, ph)
        ELSE IF /\ Len(text) > opts.MinLength * LongStringFactor
                /\ (isMultiLine \/ ContainsAny(text, ".?!:"))
                /\ score < LongStringMaxScore
        THEN Verdict(TRUE, "long_string", var, "long_string", ph)
        ELSE Verdict(FALSE, "no_signal", var, word, ph) :
        var \in { IF ctx.VariableName # "" /\ Len(opts.VariableKeywords) > 0
                  THEN VarKeywordFindString(opts.VariableKeywords, ctx.VariableName)
                  ELSE "" },
        word \in { IF Len(opts.ContentKeywords) > 0
                   THEN ContentWordFindString(opts.ContentKeywords, text) ELSE "" },
        ph \in { FirstPlaceholderMatch(opts.PlaceholderPatterns, text) } })

\* variant: the scoring runs first, and a literal with a variable-name match is
\* accepted before the exclusions are looked at
GreedyPromptScoringFirst(opts, ctx, text) ==
    Only({ IF scored.accept /\ scored.MatchedVariableName # "" THEN scored
           ELSE IF excluded # "" THEN Verdict(FALSE, excluded, "", "", "")
           ELSE scored :
           scored \in {GreedyScore(opts, ctx, text)},
           excluded \in {GreedyExclusion(opts, ctx, text)} })

\* variant: the long-string rule is tried before the rules on the matches
GreedyPromptLongStringFirst(opts, ctx, text) ==
    Only({ IF excluded # "" THEN Verdict(FALSE, excluded, "", "", "")
           ELSE IF /\ Len(text) > opts.MinLength * LongStringFactor
                   /\ (IsMultiLine(ctx) \/ ContainsAny(text, ".?!:"))
           THEN Verdict(TRUE, "long_string", scored.MatchedVariableName, "long_string",
                        scored.MatchedPlaceholder)
           ELSE scored :
           scored \in {GreedyScore(opts, ctx, text)},
           excluded \in {GreedyExclusion(opts, ctx, text)} })

\* variant: a score that reaches the threshold on its own does not accept
GreedyPromptWithoutScoreAlone(opts, ctx, text) ==
    Only({ IF excluded # "" THEN Verdict(FALSE, excluded, "", "", "")
           ELSE IF scored.rule = "score_alone"
           THEN [scored EXCEPT !.accept = FALSE, !.rule = "no_signal"]
           ELSE scored :
           scored \in {GreedyScore(opts, ctx, text)},
           excluded \in {GreedyExclusion(opts, ctx, text)} })

\* the branch for Greedy = true
GreedyPrompt(opts, ctx, text) ==
    Only({ IF excluded # "" THEN Verdict(FALSE, excluded, "", "", "")
           ELSE GreedyScore(opts, ctx, text) :
           excluded \in {GreedyExclusion(opts, ctx, text)} })

\* variant: the text is classified as given, without strings.TrimSpace
IsPotentialPromptUntrimmed(opts, ctx) ==
    Only({ IF TrimSpace(text) = "" THEN Verdict(FALSE, "blank", "", "", "")
           ELSE IF ~opts.Greedy THEN StrictPrompt(opts, ctx, text)
           ELSE GreedyPrompt(opts, ctx, text) :
           text \in {ctx.Text} })

\* variant: texts shorter than MinLength are rejected before the mode is looked at
IsPotentialPromptMinLengthFirst(opts, ctx) ==
    Only({ IF text = "" THEN Verdict(FALSE, "blank", "", "", "")
           ELSE IF Len(text) < opts.MinLength THEN Verdict(FALSE, "too_short", "", "", "")
           ELSE IF ~opts.Greedy THEN StrictPrompt(opts, ctx, text)
           ELSE GreedyPrompt(opts, ctx, text) :
           text \in {TrimSpace(ctx.Text)} })

\* variant: the classifier without the check for blank text
IsPotentialPromptWithoutBlankCheck(opts, ctx) ==
    Only({ IF ~opts.Greedy THEN StrictPrompt(opts, ctx, text)
           ELSE GreedyPrompt(opts, ctx, text) :
           text \in {TrimSpace(ctx.Text)} })

\* (The one-element sets bind each value once, as a Go local variable does.)
IsPotentialPrompt(opts, ctx) ==
    Only({ IF text = "" THEN Verdict(FALSE, "blank", "", "", "")
           ELSE IF ~opts.Greedy THEN StrictPrompt(opts, ctx, text)
           ELSE GreedyPrompt(opts, ctx, text) :
           text \in {TrimSpace(ctx.Text)} })

(***************************************************************************)
(* The classifier on its own: one scanner configuration and one candidate  *)
(* literal, classified under each mode, and a second candidate that shares *)
(* only the text, the multi-line status and the content keywords.          *)
(***************************************************************************)
VARIABLES
    Options,    \* Scanner.Options (ScanOptions)
    ctx,        \* the PromptContext handed to IsPotentialPrompt
    strict,     \* IsPotentialPrompt(ctx) of the scanner with Greedy = false
    greedy,     \* IsPotentialPrompt(ctx) of the scanner with Greedy = true
    other       \* a second call in strict mode: its options, context and verdict

classifyVars == << ctx, strict, greedy, other >>

(***************************************************************************)
(* The state of one ScanDirectory call and of the file tree it walks.      *)
(***************************************************************************)
VARIABLES
    scanPath,           \* the path main calls ScanDirectory with (rootDir there)
    gitignores,         \* directory -> the paths its .gitignore file matches
    unreadable,         \* the paths that cannot be read: files os.ReadFile fails on,
                        \* directories os.ReadDir fails on, a root os.Lstat fails on
    malformed,          \* the files whose parser returns an error
    queryErrors,        \* the languages whose query sitter.NewQuery rejects
    walkErr,            \* what filepath.WalkDir returned: TRUE for an error
    defaultNumWorkers,  \* runtime.NumCPU()
    pending,            \* filepath.WalkDir: the paths still to visit, in order
    mainPc,             \* where ScanDirectory stands
    filesToProcess,     \* the channel of paths
    filesClosed,        \* close(filesToProcess) done
    workers,            \* worker goroutine -> its position and the batch it holds
    resultsChan,        \* the channel of batches
    resultsClosed,      \* close(resultsChan) done
    collectorDone,      \* the collector goroutine returned
    allPrompts,         \* the slice the collector appends to
    gitIgnoreCache,     \* Scanner.gitIgnoreCache
    returned,           \* what ScanDirectory returned
    dispatched,         \* history: the paths sent on filesToProcess, in order
    processed,          \* history: the paths handed to processFile
    attempts,           \* history: the calls of processFile, in order
    callers,            \* goroutine in isIgnored -> its position and locals
    compiled            \* history: the directories CompileIgnoreFile was called for

\* what a scan finds and does not change: its root, the file tree's faults and the
\* CPU count
environment == << scanPath, gitignores, unreadable, malformed, queryErrors, defaultNumWorkers >>

ignoreVars == << callers, compiled >>

scanVars ==
    << environment, walkErr, pending, mainPc, filesToProcess, filesClosed, workers,
       resultsChan, resultsClosed, collectorDone, allPrompts, gitIgnoreCache, returned, dispatched, processed,
       attempts,
       ignoreVars >>

(***************************************************************************)
(* The state of the extractors' helpers on one literal: the decoders on    *)
(* its text and the context resolvers on its ancestors.                    *)
(***************************************************************************)
VARIABLES
    raw,        \* the text between the quotes of a literal, as written in the source
    pyPasses,   \* unescapePythonString applied to raw once, twice, ...
    jsPasses,   \* unescapeJSString applied to raw once, twice, ...
    language,   \* the language of the file the literal stands in
    ancestors,  \* the nodes above the literal, its parent first
    resolved,   \* the context the resolver returned for the literal
    queryMatches,   \* the string nodes of the matches the query cursor yields, in order
    matchIndex,     \* the match the loop of ParseTreeSitterFile comes to next
    processedIDs,   \* processedNodeIDs
    candidates,     \* history: the nodes handed to the classifier, in order
    filePrompts     \* prompts, each with the node it was built from

matchVars == << queryMatches, matchIndex, processedIDs, candidates, filePrompts >>

extractVars == << raw, pyPasses, jsPasses, language, ancestors, resolved, matchVars >>

vars == << Options, classifyVars, scanVars, extractVars >>

\* a context not resolved yet
Unresolved == [ varName |-> "?", invFuncName |-> "?", invReceiverName |-> "?" ]

\* no literal is being decoded or resolved
\* no file's matches are being gone through
MatchIdle ==
    /\ queryMatches = << >> /\ matchIndex = 1
    /\ processedIDs = {} /\ candidates = << >> /\ filePrompts = << >>

ExtractIdle ==
    /\ raw = "" /\ pyPasses = << >> /\ jsPasses = << >>
    /\ language = "" /\ ancestors = << >>
    /\ resolved = Unresolved
    /\ MatchIdle

\* no scan is running
ScanIdle ==
    /\ scanPath = ""
    /\ gitignores = << >> /\ unreadable = {} /\ malformed = {} /\ queryErrors = {}
    /\ walkErr = FALSE
    /\ defaultNumWorkers = 0
    /\ pending = << >> /\ mainPc = "idle"
    /\ filesToProcess = << >> /\ filesClosed = FALSE
    /\ workers = << >> /\ resultsChan = << >> /\ resultsClosed = FALSE
    /\ collectorDone = FALSE /\ allPrompts = << >> /\ gitIgnoreCache = << >>
    /\ returned = [ prompts |-> << >>, err |-> FALSE ]
    /\ dispatched = << >> /\ processed = {} /\ attempts = << >>
    /\ callers = << >> /\ compiled = << >>

\* the verdict of a call not made yet
Pending == Verdict(FALSE, "pending", "", "", "")

\* a minimum length small enough for the short texts below to reach it
SmallMinLength == 8

ScanOptions(minLength, varKeywords, contentKeywords, patterns) ==
    [ MinLength |-> minLength, VariableKeywords |-> varKeywords,
      ContentKeywords |-> contentKeywords, PlaceholderPatterns |-> patterns,
      ScanConfigs |-> FALSE, Greedy |-> FALSE, UseGitignore |-> FALSE ]

DefaultOptions ==
    ScanOptions(DefaultMinLength, DefaultVarKeywordsList, DefaultContentKeywordsList,
                DefaultPlaceholderPatternsList)

ClassifyOptions ==
    { DefaultOptions,
      ScanOptions(SmallMinLength, << "prompt" >>, << "act as", "you are a" >>,
                  << PatBrace, "", PatPercent >>),
      ScanOptions(SmallMinLength, << >>, << >>, << >>) }

\* PromptContext as the extractors build it: LinesInContent = CountNewlines + 1
PromptContext(text, varName, explicit, funcName, receiverName) ==
    [ Text |-> text, VariableName |-> varName, IsMultiLineExplicit |-> explicit,
      LinesInContent |-> CountNewlines(text) + 1,
      InvocationFunctionName |-> funcName, InvocationReceiverName |-> receiverName ]

\* short literals: blank, keyword first, keyword inside, no keyword, several lines,
\* log-message prefixes, placeholders, a brace that is no placeholder
ShortTexts ==
    { "", " ", "Act as bot", " act as bot", "hello bot", "you act as x.", "a\nact as b",
      "a\nb", "error: act as x", "Error: act as {q}", "act as %s {", "hello {q}" }

\* literals made long enough to pass each length threshold of the exclusions
LongTexts ==
    { t \o Pad(n) : t \in { "act as ", "error: x", "hello." },
                    n \in { LogReceiverMaxLen, ThrowMaxLen, LogMethodMaxLen } }

\* the literals of the scenarios of the specification
ScenarioA == "You are a helpful assistant. Please answer: {question}"

ScenarioB == "failed to connect: %s"

ScenarioC == "invalid state"

ClassifyTexts == ShortTexts \cup { ScenarioA, ScenarioB, ScenarioC }

VariableNames == { "", "prompt" }

\* << InvocationFunctionName, InvocationReceiverName >> as the context resolvers
\* produce them: no call, method calls, constructor calls, bare throw and raise,
\* a call of a sink method that is no logging verb
Invocations ==
    { << "", "" >>, << "error", "logger" >>, << "log", "console" >>, << "write", "stdout" >>,
      << "info", "app" >>, << "panic", "" >>, << "Error", "new" >>, << "TypeError", "new" >>,
      << "ValueError", "" >>, << "throw_literal", "" >>, << "raise_literal", "" >>,
      << "send", "console" >> }

\* the long literals come as plain single-line arguments or initialisers
ClassifyContexts ==
    { PromptContext(t, v, e, inv[1], inv[2]) :
        t \in ClassifyTexts, v \in VariableNames, e \in BOOLEAN, inv \in Invocations }
    \cup { PromptContext(t, "", FALSE, inv[1], inv[2]) : t \in LongTexts, inv \in Invocations }

WithGreedy(opts, g) == [opts EXCEPT !.Greedy = g]

ClassifyInit ==
    /\ Options \in ClassifyOptions
    /\ ctx \in ClassifyContexts
    /\ strict = Pending
    /\ greedy = Pending
    /\ other = [ opts |-> Options, ctx |-> ctx, verdict |-> Pending ]
    /\ ScanIdle
    /\ ExtractIdle

ClassifyStrict ==
    /\ strict = Pending
    /\ strict' = IsPotentialPrompt(WithGreedy(Options, FALSE), ctx)
    /\ UNCHANGED << Options, ctx, greedy, other, scanVars, extractVars >>

ClassifyGreedy ==
    /\ greedy = Pending
    /\ greedy' = IsPotentialPrompt(WithGreedy(Options, TRUE), ctx)
    /\ UNCHANGED << Options, ctx, strict, other, scanVars, extractVars >>

\* the other signals of a second call: variable name, invocation, options
OtherSignals ==
    { << "msg", << "", "" >>, DefaultOptions >>,
      << "prompt", << "log", "console" >>, ScanOptions(SmallMinLength, << >>, << >>, << >>) >>,
      << "", << "throw_literal", "" >>,
         ScanOptions(LogMethodMaxLen, << "msg" >>, << >>, << PatAngle >>) >>,
      << "user_prompt", << "Error", "new" >>,
         ScanOptions(1, << "prompt" >>, << >>, DefaultPlaceholderPatternsList) >> }

\* a second strict-mode call: same text, multi-line status and content keywords
ClassifyOther ==
    /\ other.verdict = Pending
    /\ strict # Pending
    /\ greedy = Pending
    /\ \E sig \in OtherSignals :
         \E opts2 \in { [WithGreedy(sig[3], FALSE) EXCEPT
                           !.ContentKeywords = Options.ContentKeywords] },
            ctx2 \in { [ctx EXCEPT !.VariableName = sig[1],
                                   !.InvocationFunctionName = sig[2][1],
                                   !.InvocationReceiverName = sig[2][2]] } :
            other' = [ opts |-> opts2, ctx |-> ctx2, verdict |-> IsPotentialPrompt(opts2, ctx2) ]
    /\ UNCHANGED << Options, ctx, strict, greedy, scanVars, extractVars >>

ClassifyNext == ClassifyStrict \/ ClassifyGreedy \/ ClassifyOther

SpecClassify == ClassifyInit /\ [][ClassifyNext]_vars

(***************************************************************************)
(* Properties of the classifier, checked under SpecClassify.               *)
(***************************************************************************)
\* some keyword of kws is, case-insensitively, a prefix of text
StartsWithKeyword(kws, text) ==
    \E k \in 1..Len(kws) : HasPrefix(ToLower(text), ToLower(kws[k]))

\* some keyword of kws occurs, case-insensitively, in text
ContainsKeyword(kws, text) ==
    \E k \in 1..Len(kws) : Contains(ToLower(text), ToLower(kws[k]))

\* C1: mode superset: whatever the configuration, the text and the context, an
\* input that strict mode accepts is accepted by permissive mode as well.
C1_ModeSuperset ==
    (strict # Pending /\ greedy # Pending /\ strict.accept) => greedy.accept

C4_ExclusionsInBothModes ==
    LET text == TrimSpace(ctx.Text)
    IN  /\ (greedy # Pending /\ text # ""
            /\ GreedyExclusion(WithGreedy(Options, TRUE), ctx, text) # "")
           => ~greedy.accept
        /\ (strict # Pending /\ text # ""
            /\ GreedyExclusion(WithGreedy(Options, TRUE), ctx, text) # "")
           => ~strict.accept

\* the constructs that throw, raise or panic, as the context resolvers report them:
\* panic("..."), throw new X("..."), raise X("..."), throw "...", raise "..."
ThrowInvocations ==
    { << "panic", "" >>, << "Error", "new" >>, << "TypeError", "new" >>,
      << "ValueError", "" >>, << "throw_literal", "" >>, << "raise_literal", "" >> }

\* C5: in permissive mode the literal argument of a throw, raise or panic
\* construct, bare or through an error constructor, that is shorter than 150
\* and has no brace is rejected whatever keywords it contains.
C5_ThrowArgumentsRejected ==
    ( /\ greedy # Pending
      /\ << ctx.InvocationFunctionName, ctx.InvocationReceiverName >> \in ThrowInvocations
      /\ Len(TrimSpace(ctx.Text)) < ThrowMaxLen
      /\ ~Contains(TrimSpace(ctx.Text), "{") )
    => ~greedy.accept

\* Scenario B: logger.error("failed to connect: %s", err) under the defaults
IsScenarioB ==
    /\ Options = DefaultOptions
    /\ ctx.Text = ScenarioB
    /\ ctx.InvocationFunctionName = "error" /\ ctx.InvocationReceiverName = "logger"
    /\ greedy # Pending

\* C6 (as stated): permissive mode rejects Scenario B, and the rule that rejects
\* it is the logging-verb exclusion.
C6_RejectedByLoggingVerb ==
    IsScenarioB => (~greedy.accept /\ greedy.rule = "logging_method")

\* C6 (amended): permissive mode rejects Scenario B, and the rule that rejects it
\* is the exclusion of logging receivers with a logging verb; the logging-verb
\* exclusion does not fire, because %s is a placeholder.
C6_RejectedByLoggingReceiver ==
    IsScenarioB => (~greedy.accept /\ greedy.rule = "logging_receiver")

C6_Witness == IsScenarioB /\ ~greedy.accept /\ ctx.VariableName = ""

\* Scenario A: prompt = "You are a helpful assistant. Please answer: {question}"
\* under the defaults, classified in both modes
IsScenarioA ==
    /\ Options = DefaultOptions
    /\ ctx = PromptContext(ScenarioA, "prompt", FALSE, "", "")
    /\ strict # Pending /\ greedy # Pending

\* C7 (as stated): Scenario A is accepted in both modes, and the FoundPrompt
\* records the variable match "prompt" and the placeholder match "{question}".
C7_BothModesRecordMatches ==
    IsScenarioA =>
        \A v \in {strict, greedy} :
            /\ v.accept
            /\ v.MatchedVariableName = "prompt"
            /\ v.MatchedPlaceholder = "{question}"

\* C7 (amended): Scenario A is accepted in both modes; in permissive mode the
\* FoundPrompt records the variable match "prompt" and the placeholder match
\* "{question}", in strict mode it records the content keyword "you are a" and
\* neither of the other two.
C7_AcceptedPermissiveRecordsMatches ==
    IsScenarioA =>
        /\ strict.accept /\ greedy.accept
        /\ greedy.MatchedVariableName = "prompt"
        /\ greedy.MatchedPlaceholder = "{question}"
        /\ strict.MatchedContentWord = "you are a"
        /\ strict.MatchedVariableName = "" /\ strict.MatchedPlaceholder = ""

C7_Witness == IsScenarioA /\ strict.accept /\ greedy.accept

(***************************************************************************)
(* Paths (path/filepath on cleaned absolute paths).                        *)
(***************************************************************************)
\* strings.LastIndex for a one-byte separator, 0 for none
LastIndex(s, c) ==
    Only({ IF hits = {} THEN 0 ELSE CHOOSE i \in hits : \A j \in hits : j <= i :
           hits \in { {i \in 1..Len(str) : Char(str, i) = c} : str \in {s} } })

filepathDir(path) ==
    Only({ IF i = 0 THEN "." ELSE IF i = 1 THEN "/" ELSE SubSeq(p, 1, i - 1) :
           p \in {path}, i \in {LastIndex(path, "/")} })

filepathBase(path) == Only({ SubSeq(p, LastIndex(p, "/") + 1, Len(p)) : p \in {path} })

\* the suffix of the last element that starts at its last dot, "" for none
filepathExt(path) ==
    Only({ Only({ IF i = 0 THEN "" ELSE SubSeq(base, i, Len(base)) : i \in {LastIndex(base, ".")} }) :
           base \in {filepathBase(path)} })

filepathJoin(dir, name) == dir \o "/" \o name

(***************************************************************************)
(* The file tree under the scan root.                                      *)
(***************************************************************************)
\* the top of the source tree
RootDir == "/w"

\* the absolute scan paths main hands to ScanDirectory: the top of the source tree,
\* a dependency directory, a directory with hidden directories
ScanRoots == { RootDir, "/w/node_modules", "/v" }

\* directory -> its entries other than .gitignore, sorted by name as os.ReadDir does
DirEntries ==
    ( "/w" :> << "a", "c.json", "node_modules", "x.py" >> ) @@
    ( "/w/a" :> << "b", "y.go" >> ) @@
    ( "/w/a/b" :> << "z.js" >> ) @@
    ( "/w/node_modules" :> << "m.js" >> ) @@
    ( "/v" :> << ".cache", ".github" >> ) @@
    ( "/v/.cache" :> << "k.py" >> ) @@
    ( "/v/.github" :> << "ci.py" >> )

IsDir(path) == path \in DOMAIN DirEntries

\* os.ReadDir: the paths of the entries of dir, its .gitignore first when it has one
ReadDir(dir) ==
    LET names == (IF dir \in DOMAIN gitignores THEN << ".gitignore" >> ELSE << >>)
                 \o DirEntries[dir]
    IN  [k \in 1..Len(names) |-> filepathJoin(dir, names[k])]

\* one string literal of a file as an extractor hands it to the classifier
Literal(line, text, varName, explicit, funcName, receiverName) ==
    [ line |-> line, ctx |-> PromptContext(text, varName, explicit, funcName, receiverName) ]

\* file -> the string literals its extractor finds, in source order
FileLiterals ==
    ( "/w/x.py" :> << Literal(1, "act as", "prompt", FALSE, "", ""),
                      Literal(2, "hello bot", "", FALSE, "print", "") >> ) @@
    ( "/w/c.json" :> << Literal(3, "a\nact as b", "system_prompt", FALSE, "", "") >> ) @@
    ( "/w/a/y.go" :> << Literal(5, "hello bot", "msg", FALSE, "Println", "fmt") >> ) @@
    ( "/w/a/b/z.js" :> << Literal(2, "Act as bot", "", FALSE, "log", "console"),
                          Literal(7, "you are a {q}", "p", TRUE, "", "") >> ) @@
    ( "/w/node_modules/m.js" :> << Literal(1, "act as a module", "prompt", FALSE, "", "") >> ) @@
    ( "/v/.cache/k.py" :> << Literal(1, "act as", "prompt", FALSE, "", "") >> ) @@
    ( "/v/.github/ci.py" :> << Literal(1, "act as", "prompt", FALSE, "", "") >> )

LiteralsOf(path) == IF path \in DOMAIN FileLiterals THEN FileLiterals[path] ELSE << >>

(***************************************************************************)
(* processFile and the extractors.  An extractor is modelled from the      *)
(* point where it has a literal and its context: it builds the FoundPrompt *)
(* and keeps it when IsPotentialPrompt accepts.                            *)
(***************************************************************************)
FoundPrompt(filePath, lit, verdict) ==
    [ Filepath |-> filePath, Line |-> lit.line, Content |-> lit.ctx.Text,
      IsMultiLine |-> IsMultiLine(lit.ctx),
      MatchedVariableName |-> verdict.MatchedVariableName,
      MatchedContentWord |-> verdict.MatchedContentWord,
      MatchedPlaceholder |-> verdict.MatchedPlaceholder ]

\* the literal nodes an extractor comes to, in order, as indexes into the file's
\* literals.  ast.Inspect and the config parsers come to every literal once.  The
\* query cursor yields one match per pattern: every string matches the any-string
\* pattern, and one bound to a name or passed to a call matches the pattern for
\* that construct as well.
RECURSIVE MatchesFrom(_, _, _)
MatchesFrom(literals, k, perPattern) ==
    IF k > Len(literals) THEN << >>
    ELSE (IF /\ perPattern
             /\ \/ literals[k].ctx.VariableName # ""
                \/ literals[k].ctx.InvocationFunctionName # ""
          THEN << k, k >> ELSE << k >>)
         \o MatchesFrom(literals, k + 1, perPattern)

QueryMatches(filePath) ==
    MatchesFrom(LiteralsOf(filePath), 1,
                ToLower(filepathExt(filePath)) \in { ".py", ".js", ".jsx", ".ts", ".tsx" })

\* variant: the loop without the processedNodeIDs check
RECURSIVE AppendAcceptedWithoutProcessedNodeIDs(_, _, _, _, _, _, _)
AppendAcceptedWithoutProcessedNodeIDs(opts, filePath, literals, matches, k, processedNodeIDs, prompts) ==
    IF k > Len(matches) THEN prompts
    ELSE Only({ AppendAcceptedWithoutProcessedNodeIDs(opts, filePath, literals, matches,
                    k + 1, processedNodeIDs,
                    IF verdict.accept
                    THEN Append(prompts, FoundPrompt(filePath, literals[node], verdict))
                    ELSE prompts) :
                node \in {matches[k]},
                verdict \in {IsPotentialPrompt(opts, literals[matches[k]].ctx)} })

\* the loop every extractor runs: a node already in processedNodeIDs is passed
\* over, any other is recorded, classified and appended when accepted
RECURSIVE AppendAccepted(_, _, _, _, _, _, _)
AppendAccepted(opts, filePath, literals, matches, k, processedNodeIDs, prompts) ==
    IF k > Len(matches) THEN prompts
    ELSE IF matches[k] \in processedNodeIDs
    THEN AppendAccepted(opts, filePath, literals, matches, k + 1, processedNodeIDs, prompts)
    ELSE Only({ AppendAccepted(opts, filePath, literals, matches, k + 1, seen,
                    IF verdict.accept
                    THEN Append(prompts, FoundPrompt(filePath, literals[node], verdict))
                    ELSE prompts) :
                node \in {matches[k]},
                seen \in {processedNodeIDs \cup {matches[k]}},
                verdict \in {IsPotentialPrompt(opts, literals[matches[k]].ctx)} })

\* an extractor once the content is parsed
ParseFile(opts, filePath) ==
    Only({ AppendAccepted(opts, filePath, literals, matches, 1, {}, << >>) :
           literals \in {LiteralsOf(filePath)}, matches \in {QueryMatches(filePath)} })

\* variant: a parser that fails returns what it would have found next to its error
ParseKeepingPromptsOnError(opts, filePath) ==
    [ prompts |-> ParseFile(opts, filePath), err |-> filePath \in malformed ]

\* an extractor as processFile calls it: (nil, err) when the parser fails on the
\* content, the accepted literals and no error otherwise
Parse(opts, filePath) ==
    IF filePath \in malformed THEN [ prompts |-> << >>, err |-> TRUE ]
    ELSE [ prompts |-> ParseFile(opts, filePath), err |-> FALSE ]

ConfigExtensions == { ".json", ".yaml", ".yml", ".toml" }

\* the languages with a tree-sitter grammar
langToGrammar == { "python", "javascript", "typescript" }

\* the languages whose query is not empty after cleaning
langToQueries == { "python", "javascript", "typescript" }

\* the language processFile passes for an extension
TreeSitterLanguage ==
    ( ".py" :> "python" ) @@ ( ".js" :> "javascript" ) @@ ( ".jsx" :> "javascript" ) @@
    ( ".ts" :> "typescript" ) @@ ( ".tsx" :> "typescript" )

\* the grammar and query lookups, the parse, the query compilation (each can end
\* the call with an error) and then the loop over the matches
ParseTreeSitterFile(opts, filePath, langName) ==
    IF langName \notin langToGrammar \/ langName \notin langToQueries
    THEN [ prompts |-> << >>, err |-> TRUE ]
    ELSE IF filePath \in malformed THEN [ prompts |-> << >>, err |-> TRUE ]
    ELSE IF langName \in queryErrors THEN [ prompts |-> << >>, err |-> TRUE ]
    ELSE Parse(opts, filePath)

processFile(opts, filePath) ==
    LET ext == ToLower(filepathExt(filePath))
        fileName == ToLower(filepathBase(filePath))
    IN  IF filePath \in unreadable THEN [ prompts |-> << >>, err |-> TRUE ]
        ELSE IF ext = ".go" THEN Parse(opts, filePath)
        ELSE IF ext \in DOMAIN TreeSitterLanguage
        THEN ParseTreeSitterFile(opts, filePath, TreeSitterLanguage[ext])
        ELSE IF opts.ScanConfigs /\ (HasPrefix(fileName, ".env") \/ ext \in ConfigExtensions)
        THEN Parse(opts, filePath)
        ELSE [ prompts |-> << >>, err |-> FALSE ]

(***************************************************************************)
(* Scanner.isIgnored.  A compiled ignorer is modelled by the set of paths  *)
(* its MatchesPath accepts.                                                *)
(***************************************************************************)
\* gitignore.CompileIgnoreFile, with the empty ignorer isIgnored puts in its place
\* for a file that is missing or cannot be read
CompileIgnoreFile(dir) ==
    IF dir \in DOMAIN gitignores /\ filepathJoin(dir, ".gitignore") \notin unreadable
    THEN gitignores[dir] ELSE {}

MatchesPath(ignorer, absPath) == absPath \in ignorer

\* the loop of isIgnored from currentSearchDir upwards; the cache is filled on the way
RECURSIVE isIgnoredFrom(_, _, _, _)
isIgnoredFrom(absPath, currentSearchDir, absRootDir, cache) ==
    IF \/ currentSearchDir = ""
       \/ ~HasPrefix(currentSearchDir, absRootDir) /\ currentSearchDir # absRootDir
    THEN [ ignored |-> FALSE, cache |-> cache ]
    ELSE Only({ IF MatchesPath(filled[currentSearchDir], absPath)
                THEN [ ignored |-> TRUE, cache |-> filled ]
                ELSE IF currentSearchDir = absRootDir \/ parentDir = currentSearchDir
                THEN [ ignored |-> FALSE, cache |-> filled ]
                ELSE isIgnoredFrom(absPath, parentDir, absRootDir, filled) :
                filled \in { IF currentSearchDir \in DOMAIN cache THEN cache
                             ELSE cache @@ (currentSearchDir
                                            :> CompileIgnoreFile(currentSearchDir)) },
                parentDir \in { filepathDir(currentSearchDir) } })

\* variant: only the .gitignore of the path's own directory is consulted
isIgnoredOwnDirectoryOnly(path, rootDir) ==
    IF ~Options.UseGitignore THEN [ ignored |-> FALSE, cache |-> gitIgnoreCache ]
    ELSE LET dir == IF IsDir(path) THEN path ELSE filepathDir(path)
         IN  [ ignored |-> MatchesPath(CompileIgnoreFile(dir), path),
               cache |-> IF dir \in DOMAIN gitIgnoreCache THEN gitIgnoreCache
                         ELSE gitIgnoreCache @@ (dir :> CompileIgnoreFile(dir)) ]

isIgnored(path, rootDir) ==
    IF ~Options.UseGitignore THEN [ ignored |-> FALSE, cache |-> gitIgnoreCache ]
    ELSE isIgnoredFrom(path, IF IsDir(path) THEN path ELSE filepathDir(path),
                       rootDir, gitIgnoreCache)

\* the directory names the walk never enters
SkippedDirNames ==
    { ".git", "node_modules", "vendor", "dist", "build", "target", "tmp", "temp",
      "__pycache__", ".venv", "venv", "env", ".next", ".nuxt", ".svelte-kit" }

IsSkippedDir(dirName) ==
    \/ dirName \in SkippedDirNames
    \/ HasPrefix(dirName, ".") /\ Len(dirName) > 1 /\ dirName \notin { ".config", ".github" }

(***************************************************************************)
(* ScanDirectory: the walk, the worker goroutines, the collector goroutine *)
(* and the shutdown sequence.                                              *)
(***************************************************************************)
\* the most CPUs considered
MaxWorkers == 2

\* the most (directory, matched path) pairs the .gitignore files hold together
MaxRules == 2

\* a .gitignore of directory r[1] with a pattern that matches path r[2]
CandidateRules ==
    { << "/w", "/w/a" >>, << "/w", "/w/x.py" >>, << "/w/a", "/w/a/b/z.js" >>,
      << "/w/a", "/w/a/y.go" >>, << "/w/a/b", "/w/a/y.go" >> }

GitignoresOf(ruleSet) ==
    [ dir \in {r[1] : r \in ruleSet} |-> {r[2] : r \in {q \in ruleSet : q[1] = dir}} ]

ScanSetups ==
    LET base == ScanOptions(SmallMinLength, << "prompt" >>, << "act as", "you are a" >>,
                            << PatBrace, PatPercent >>)
    IN  { [base EXCEPT !.UseGitignore = TRUE],
          [base EXCEPT !.UseGitignore = TRUE, !.Greedy = TRUE, !.ScanConfigs = TRUE],
          [base EXCEPT !.ScanConfigs = TRUE],
          [base EXCEPT !.Greedy = TRUE] }

\* the faults a scan meets: none, a file that cannot be read next to files that
\* cannot be parsed, a directory that cannot be listed, a root that cannot be
\* accessed, a query that does not compile; a scan that meets a fault is
\* considered with fewer .gitignore rules than MaxRules; the faults and the
\* .gitignore files are those of the source tree
Faults ==
    { [ unreadable |-> {}, malformed |-> {}, queryErrors |-> {} ],
      [ unreadable |-> { "/w/x.py" }, malformed |-> { "/w/c.json", "/w/a/y.go" },
        queryErrors |-> {} ],
      [ unreadable |-> { "/w/a/b" }, malformed |-> {}, queryErrors |-> {} ],
      [ unreadable |-> { RootDir }, malformed |-> {}, queryErrors |-> {} ],
      [ unreadable |-> {}, malformed |-> {}, queryErrors |-> { "javascript" } ] }

\* the capacity of both channels
ChannelCap == defaultNumWorkers * 2

\* configurations with a keyword or a placeholder pattern that is no regular
\* expression
BrokenSetups ==
    LET base == ScanOptions(SmallMinLength, << "prompt" >>, << "act as", "you are a" >>,
                            << PatBrace, PatPercent >>)
    IN  { [base EXCEPT !.VariableKeywords = << "prompt", "(" >>],
          [base EXCEPT !.ContentKeywords = << "act as", "[x" >>, !.Greedy = TRUE],
          [base EXCEPT !.PlaceholderPatterns = << PatBrace, "", "*x" >>] }

\* the state when main has built scanOpts and is about to call scanner.New
ScanInit ==
    /\ Options \in ScanSetups \cup BrokenSetups
    /\ scanPath \in ScanRoots
    /\ \E faults \in Faults, ruleSet \in SUBSET CandidateRules :
          /\ Cardinality(ruleSet) <= MaxRules
          /\ scanPath # RootDir
                 => /\ ruleSet = {}
                    /\ faults.unreadable \cup faults.malformed \cup faults.queryErrors = {}
          /\ faults.unreadable \cup faults.malformed \cup faults.queryErrors # {}
                 => Cardinality(ruleSet) < MaxRules
          /\ gitignores = GitignoresOf(ruleSet)
          /\ unreadable = faults.unreadable
          /\ malformed = faults.malformed
          /\ queryErrors = faults.queryErrors
    /\ walkErr = FALSE
    /\ defaultNumWorkers \in 1..MaxWorkers
    /\ pending = << scanPath >>
    /\ mainPc = "new"
    /\ filesToProcess = << >> /\ filesClosed = FALSE
    /\ workers = << >>
    /\ resultsChan = << >> /\ resultsClosed = FALSE
    /\ collectorDone = FALSE
    /\ allPrompts = << >>
    /\ gitIgnoreCache = << >>
    /\ returned = [ prompts |-> << >>, err |-> FALSE ]
    /\ dispatched = << >> /\ processed = {} /\ attempts = << >>
    /\ callers = << >> /\ compiled = << >>
    /\ ctx = PromptContext("", "", FALSE, "", "")
    /\ strict = Pending /\ greedy = Pending
    /\ other = [ opts |-> Options, ctx |-> ctx, verdict |-> Pending ]
    /\ ExtractIdle

\* scanner.New: with an error from compileMatchers it returns no Scanner and main
\* ends (log.Fatalf); otherwise main calls ScanDirectory, which makes the channels
\* and starts the workers and the collector before it walks
New ==
    /\ mainPc = "new"
    /\ IF compileMatchers(Options)
       THEN /\ mainPc' = "fatal"
            /\ UNCHANGED workers
       ELSE /\ mainPc' = "walk"
            /\ workers' = [w \in 1..defaultNumWorkers |-> [ pc |-> "recv", batch |-> << >> ]]
    /\ UNCHANGED << Options, classifyVars, extractVars, environment, ignoreVars, walkErr, pending,
                    filesToProcess, filesClosed, resultsChan, resultsClosed,
                    collectorDone, allPrompts, gitIgnoreCache, returned, dispatched,
                    processed, attempts >>

\* variant: the name of the scan root itself is not looked at
WalkDecisionExemptingRoot(path, ignored) ==
    IF ignored THEN (IF IsDir(path) THEN "skip" ELSE "pass")
    ELSE IF IsDir(path)
    THEN (IF path # scanPath /\ IsSkippedDir(filepathBase(path)) THEN "skip" ELSE "pass")
    ELSE "send"

\* what the WalkDir callback decides for path when it is called without an error:
\* "skip" (SkipDir), "pass" (return nil) or "send" (filesToProcess <- path)
WalkDecision(path, ignored) ==
    IF ignored THEN (IF IsDir(path) THEN "skip" ELSE "pass")
    ELSE IF IsDir(path)
    THEN (IF IsSkippedDir(filepathBase(path)) THEN "skip" ELSE "pass")
    ELSE "send"

\* what the WalkDir callback decides when it is called with an error: SkipDir for
\* a directory entry it may not enter, nil otherwise
WalkErrorDecision(hasDirEntry, isPermission) ==
    IF hasDirEntry /\ isPermission THEN "skip" ELSE "pass"

\* filepath.WalkDir stops with an error when the callback returns one that is
\* neither nil ("pass", "send") nor SkipDir ("skip")
StopsWalk(decision) == decision \notin { "pass", "send", "skip" }

\* one step of filepath.WalkDir: the callback on the next path and, for a directory
\* it does not skip, the reading of its entries (on a failure the callback is called
\* again with the error and the directory is left).  When os.Lstat fails on the
\* root, the callback is called once, with the error and no entry.
WalkStep ==
    /\ mainPc = "walk"
    /\ pending # << >>
    /\ \E path \in {Head(pending)} :
       IF path = scanPath /\ scanPath \in unreadable
       THEN \E isPermission \in BOOLEAN :
               /\ walkErr' = (walkErr \/ StopsWalk(WalkErrorDecision(FALSE, isPermission)))
               /\ pending' = Tail(pending)
               /\ UNCHANGED << gitIgnoreCache, filesToProcess, dispatched >>
       ELSE
       \E ign \in {isIgnored(path, scanPath)} :
       \E decision \in {WalkDecision(path, ign.ignored)} :
       \E isPermission \in BOOLEAN :
          /\ gitIgnoreCache' = ign.cache
          /\ IF decision = "send"
             THEN /\ Len(filesToProcess) < ChannelCap
                  /\ filesToProcess' = Append(filesToProcess, path)
                  /\ dispatched' = Append(dispatched, path)
             ELSE UNCHANGED << filesToProcess, dispatched >>
          /\ pending' = IF decision = "pass" /\ IsDir(path) /\ path \notin unreadable
                        THEN ReadDir(path) \o Tail(pending)
                        ELSE Tail(pending)
          /\ walkErr' = (\/ walkErr
                         \/ StopsWalk(decision)
                         \/ /\ decision = "pass" /\ IsDir(path) /\ path \in unreadable
                            /\ StopsWalk(WalkErrorDecision(TRUE, isPermission)))
    /\ UNCHANGED << Options, classifyVars, extractVars, environment, ignoreVars, mainPc,
                    filesClosed, workers, resultsChan, resultsClosed, collectorDone,
                    allPrompts, returned, processed, attempts >>

\* variant: the walk ends and filesToProcess is left open
LeaveFilesToProcessOpen ==
    /\ mainPc = "walk"
    /\ pending = << >>
    /\ mainPc' = "wg_wait"
    /\ UNCHANGED << Options, classifyVars, extractVars, environment, ignoreVars, walkErr, pending,
                    filesToProcess, filesClosed, workers, resultsChan, resultsClosed,
                    collectorDone, allPrompts, gitIgnoreCache, returned, dispatched,
                    processed, attempts >>

\* WalkDir returned: close(filesToProcess)
CloseFilesToProcess ==
    /\ mainPc = "walk"
    /\ pending = << >>
    /\ filesClosed' = TRUE
    /\ mainPc' = "wg_wait"
    /\ UNCHANGED << Options, classifyVars, extractVars, environment, ignoreVars, walkErr, pending,
                    filesToProcess, workers, resultsChan, resultsClosed, collectorDone,
                    allPrompts, gitIgnoreCache, returned, dispatched, processed, attempts >>

\* variant: resultsChan is closed without waiting for the workers
WgWaitNotWaiting ==
    /\ mainPc = "wg_wait"
    /\ mainPc' = "close_results"
    /\ UNCHANGED << Options, classifyVars, extractVars, environment, ignoreVars, walkErr, pending,
                    filesToProcess, filesClosed, workers, resultsChan, resultsClosed,
                    collectorDone, allPrompts, gitIgnoreCache, returned, dispatched,
                    processed, attempts >>

\* wg.Wait()
WgWait ==
    /\ mainPc = "wg_wait"
    /\ \A w \in DOMAIN workers : workers[w].pc = "done"
    /\ mainPc' = "close_results"
    /\ UNCHANGED << Options, classifyVars, extractVars, environment, ignoreVars, walkErr, pending,
                    filesToProcess, filesClosed, workers, resultsChan, resultsClosed,
                    collectorDone, allPrompts, gitIgnoreCache, returned, dispatched,
                    processed, attempts >>

\* close(resultsChan)
CloseResultsChan ==
    /\ mainPc = "close_results"
    /\ resultsClosed' = TRUE
    /\ mainPc' = "collect_wait"
    /\ UNCHANGED << Options, classifyVars, extractVars, environment, ignoreVars, walkErr, pending,
                    filesToProcess, filesClosed, workers, resultsChan, collectorDone,
                    allPrompts, gitIgnoreCache, returned, dispatched, processed, attempts >>

\* variant: ScanDirectory returns without waiting for the collector
ReturnWithoutCollectWait ==
    /\ mainPc = "collect_wait"
    /\ returned' = [ prompts |-> allPrompts, err |-> walkErr ]
    /\ mainPc' = "returned"
    /\ UNCHANGED << Options, classifyVars, extractVars, environment, ignoreVars, walkErr, pending,
                    filesToProcess, filesClosed, workers, resultsChan, resultsClosed,
                    collectorDone, allPrompts, gitIgnoreCache, dispatched, processed, attempts >>

\* collectWg.Wait() and the return: an error when walkErr is one
CollectWgWait ==
    /\ mainPc = "collect_wait"
    /\ collectorDone
    /\ returned' = [ prompts |-> allPrompts, err |-> walkErr ]
    /\ mainPc' = "returned"
    /\ UNCHANGED << Options, classifyVars, extractVars, environment, ignoreVars, walkErr, pending,
                    filesToProcess, filesClosed, workers, resultsChan, resultsClosed,
                    collectorDone, allPrompts, gitIgnoreCache, dispatched, processed, attempts >>

\* variant: a file whose processing failed is put back on the queue
WorkerReceiveWithRetry(w) ==
    /\ workers[w].pc = "recv"
    /\ filesToProcess # << >>
    /\ \E filePath \in {Head(filesToProcess)} :
       \E res \in {processFile(Options, filePath)} :
          /\ filesToProcess' = IF res.err THEN Append(Tail(filesToProcess), filePath)
                               ELSE Tail(filesToProcess)
          /\ processed' = processed \cup {filePath}
          /\ attempts' = Append(attempts, filePath)
          /\ workers' = [workers EXCEPT ![w] =
                            IF Len(res.prompts) > 0
                            THEN [ pc |-> "send", batch |-> res.prompts ]
                            ELSE [ pc |-> "recv", batch |-> << >> ]]
    /\ UNCHANGED << Options, classifyVars, extractVars, environment, ignoreVars, walkErr, pending,
                    mainPc, filesClosed, resultsChan, resultsClosed, collectorDone,
                    allPrompts, gitIgnoreCache, returned, dispatched >>

\* a worker receives a path and processes the file
WorkerReceive(w) ==
    /\ workers[w].pc = "recv"
    /\ filesToProcess # << >>
    /\ \E filePath \in {Head(filesToProcess)} :
       \E res \in {processFile(Options, filePath)} :
          /\ filesToProcess' = Tail(filesToProcess)
          /\ processed' = processed \cup {filePath}
          /\ attempts' = Append(attempts, filePath)
          /\ workers' = [workers EXCEPT ![w] =
                            IF Len(res.prompts) > 0
                            THEN [ pc |-> "send", batch |-> res.prompts ]
                            ELSE [ pc |-> "recv", batch |-> << >> ]]
    /\ UNCHANGED << Options, classifyVars, extractVars, environment, ignoreVars, walkErr, pending,
                    mainPc, filesClosed, resultsChan, resultsClosed, collectorDone,
                    allPrompts, gitIgnoreCache, returned, dispatched >>

\* variant: the worker sends the FoundPrompts of a file one at a time
WorkerSendOneByOne(w) ==
    /\ workers[w].pc = "send"
    /\ ~resultsClosed
    /\ Len(resultsChan) < ChannelCap
    /\ resultsChan' = Append(resultsChan, << Head(workers[w].batch) >>)
    /\ workers' = [workers EXCEPT ![w] =
                      IF Len(workers[w].batch) > 1
                      THEN [ pc |-> "send", batch |-> Tail(workers[w].batch) ]
                      ELSE [ pc |-> "recv", batch |-> << >> ]]
    /\ UNCHANGED << Options, classifyVars, extractVars, environment, ignoreVars, walkErr, pending,
                    mainPc, filesToProcess, filesClosed, resultsClosed, collectorDone,
                    allPrompts, gitIgnoreCache, returned, dispatched, processed, attempts >>

\* resultsChan <- promptsFromFile
WorkerSend(w) ==
    /\ workers[w].pc = "send"
    /\ ~resultsClosed
    /\ Len(resultsChan) < ChannelCap
    /\ resultsChan' = Append(resultsChan, workers[w].batch)
    /\ workers' = [workers EXCEPT ![w] = [ pc |-> "recv", batch |-> << >> ]]
    /\ UNCHANGED << Options, classifyVars, extractVars, environment, ignoreVars, walkErr, pending,
                    mainPc, filesToProcess, filesClosed, resultsClosed, collectorDone,
                    allPrompts, gitIgnoreCache, returned, dispatched, processed, attempts >>

\* the range over filesToProcess ends: the channel is closed and drained
WorkerExit(w) ==
    /\ workers[w].pc = "recv"
    /\ filesToProcess = << >>
    /\ filesClosed
    /\ workers' = [workers EXCEPT ![w].pc = "done"]
    /\ UNCHANGED << Options, classifyVars, extractVars, environment, ignoreVars, walkErr, pending,
                    mainPc, filesToProcess, filesClosed, resultsChan, resultsClosed,
                    collectorDone, allPrompts, gitIgnoreCache, returned, dispatched,
                    processed, attempts >>

\* the collector receives a batch and appends it under mu
CollectorReceive ==
    /\ ~collectorDone
    /\ resultsChan # << >>
    /\ allPrompts' = allPrompts \o Head(resultsChan)
    /\ resultsChan' = Tail(resultsChan)
    /\ UNCHANGED << Options, classifyVars, extractVars, environment, ignoreVars, walkErr, pending,
                    mainPc, filesToProcess, filesClosed, workers, resultsClosed,
                    collectorDone, gitIgnoreCache, returned, dispatched, processed, attempts >>

\* the range over resultsChan ends
CollectorExit ==
    /\ ~collectorDone
    /\ resultsChan = << >>
    /\ resultsClosed
    /\ collectorDone' = TRUE
    /\ UNCHANGED << Options, classifyVars, extractVars, environment, ignoreVars, walkErr, pending,
                    mainPc, filesToProcess, filesClosed, workers, resultsChan, resultsClosed,
                    allPrompts, gitIgnoreCache, returned, dispatched, processed, attempts >>

Next ==
    \/ New
    \/ WalkStep
    \/ CloseFilesToProcess
    \/ WgWait
    \/ CloseResultsChan
    \/ CollectWgWait
    \/ \E w \in DOMAIN workers : WorkerReceive(w)
    \/ \E w \in DOMAIN workers : WorkerSend(w)
    \/ \E w \in DOMAIN workers : WorkerExit(w)
    \/ CollectorReceive
    \/ CollectorExit

Spec == ScanInit /\ [][Next]_vars

(***************************************************************************)
(* Properties of a scan, checked under Spec.                               *)
(***************************************************************************)
\* C8: a string shorter than the configured minimum length is never reported:
\* no FoundPrompt of a scan result has content shorter than MinLength, in either mode.
C8_NoPromptBelowMinLength ==
    mainPc = "returned" =>
        \A k \in 1..Len(returned.prompts) :
            Len(returned.prompts[k].Content) >= Options.MinLength

\* the directories of the tree that path lies beneath
DirsAbove(path) == {dir \in DOMAIN DirEntries : HasPrefix(path, dir \o "/")}

\* some .gitignore between the directory of path and the scan root matches path
MatchedByApplicablePattern(path) ==
    \E dir \in DirsAbove(path) : dir \in DOMAIN gitignores /\ path \in gitignores[dir]

BeneathIgnoredDirectory(path) ==
    \E dir \in DirsAbove(path) : MatchedByApplicablePattern(dir)

\* C9: with UseGitignore set, no file that an applicable ignore pattern matches
\* (the .gitignore of a directory between the file's directory and the scan root),
\* and no file beneath an ignored directory, is ever put on the worker queue or
\* handed to an extractor.
C9_IgnoredNeverDispatched ==
    Options.UseGitignore =>
        \A path \in SeqToSet(dispatched) \cup SeqToSet(filesToProcess) \cup processed :
            ~MatchedByApplicablePattern(path) /\ ~BeneathIgnoredDirectory(path)

\* a finished walk that left out a file matched by the .gitignore of a directory
\* further up than its own, and sent others
C9_Witness ==
    /\ Options.UseGitignore
    /\ mainPc = "returned"
    /\ "/w/a" \in DOMAIN gitignores /\ "/w/a/b/z.js" \in gitignores["/w/a"]
    /\ "/w/a/b/z.js" \notin SeqToSet(dispatched)
    /\ "/w/a/y.go" \in processed

RECURSIVE TotalLen(_, _)
TotalLen(batches, k) == IF k = 0 THEN 0 ELSE Len(batches[k]) + TotalLen(batches, k - 1)

\* batch stands in prompts as one unbroken run
OccursIn(batch, prompts) ==
    \E i \in 1..Len(prompts) : SubSeq(prompts, i, i + Len(batch) - 1) = batch

\* the batches that processing the dispatched files produces, in dispatch order
DispatchedBatches ==
    [k \in 1..Len(dispatched) |-> processFile(Options, dispatched[k]).prompts]

\* C10: for every interleaving of the walker, the workers and the collector, the
\* list ScanDirectory returns holds exactly the FoundPrompts of the dispatched
\* files: every non-empty batch once, none lost, none duplicated.  (The prompts
\* of different files differ in Filepath, so the lengths adding up rules out a
\* second copy.)
C10_ReturnedIsExactlyTheBatches ==
    mainPc = "returned" =>
        \E batches \in {DispatchedBatches} :
            /\ Len(returned.prompts) = TotalLen(batches, Len(batches))
            /\ \A k \in 1..Len(batches) :
                  Len(batches[k]) > 0 => OccursIn(batches[k], returned.prompts)

\* a scan with two workers that returned the batches of two files in the order
\* opposite to their dispatch
C10_Witness ==
    /\ mainPc = "returned"
    /\ defaultNumWorkers > 1
    /\ \E i, j \in 1..Len(returned.prompts), k, l \in 1..Len(dispatched) :
          /\ i < j /\ k < l
          /\ returned.prompts[i].Filepath = dispatched[l]
          /\ returned.prompts[j].Filepath = dispatched[k]

\* The Go scheduler runs a goroutine that can take a step: as long as some step
\* of the scan is possible, one is eventually taken.
FairSpec == Spec /\ WF_vars(Next)

AllGoroutinesDone ==
    /\ \A w \in DOMAIN workers : workers[w].pc = "done"
    /\ collectorDone

\* C11: a scan runs to completion: under any scheduling ScanDirectory eventually
\* returns (the bounded queues never block it for good), and when it has returned
\* all workers and the collector have terminated.
C11_ScanTerminates ==
    /\ (mainPc = "walk") ~> (mainPc = "returned")
    /\ [](mainPc = "returned" => AllGoroutinesDone)

\* a scan that returned after sending more paths than filesToProcess can hold
C11_Witness ==
    /\ mainPc = "returned"
    /\ AllGoroutinesDone
    /\ Len(dispatched) > ChannelCap

\* processing filePath ends with an error: the read fails or the parser fails
ProcessingFails(filePath) == processFile(Options, filePath).err

\* C12: per-file error isolation: a file whose processing fails (read error or
\* parse error) contributes no FoundPrompt, the findings of every other dispatched
\* file are still returned, and ScanDirectory returns without an error.
C12_PerFileErrorIsolation ==
    mainPc = "returned" =>
        /\ ~returned.err
        /\ \A k \in 1..Len(dispatched) :
              \E res \in {processFile(Options, dispatched[k])} :
                 IF res.err
                 THEN \A i \in 1..Len(returned.prompts) :
                         returned.prompts[i].Filepath # dispatched[k]
                 ELSE Len(res.prompts) > 0 => OccursIn(res.prompts, returned.prompts)

\* a scan that returned findings although one processed file could not be read and
\* another could not be parsed, both of which hold literals the classifier accepts
C12_Witness ==
    /\ mainPc = "returned"
    /\ Len(returned.prompts) > 0
    /\ \E f \in processed \cap unreadable : ParseFile(Options, f) # << >>
    /\ \E g \in processed \cap malformed :
          ProcessingFails(g) /\ ParseFile(Options, g) # << >>

\* C13: when the tree traversal cannot proceed because the root path is
\* inaccessible, ScanDirectory returns a non-nil error.
C13_InaccessibleRootFails ==
    (mainPc = "returned" /\ scanPath \in unreadable) => returned.err

\* processing filePath reaches sitter.NewQuery and the query does not compile
QueryCompilationFails(filePath) ==
    \E ext \in {ToLower(filepathExt(filePath))} :
        /\ filePath \notin unreadable \cup malformed
        /\ ext \in DOMAIN TreeSitterLanguage
        /\ TreeSitterLanguage[ext] \in queryErrors

\* C14: grammar and query compilation errors are raised when the Scanner is
\* constructed, before any file is scanned: no file processed during a scan fails
\* with a query compilation error.
C14_NoQueryErrorDuringScan ==
    \A filePath \in processed : ~QueryCompilationFails(filePath)

\* one of the expressions compileMatchers builds from opts is no regular expression
SomeMatcherBroken(opts) ==
    \/ /\ opts.VariableKeywords # << >>
       /\ ~RegexpCompiles("(?i)\\b(" \o Join(opts.VariableKeywords, "|") \o ")\\b")
    \/ /\ opts.ContentKeywords # << >>
       /\ ~RegexpCompiles("(?i)(" \o Join(opts.ContentKeywords, "|") \o ")")
    \/ \E pStr \in SeqToSet(opts.PlaceholderPatterns) \ { "" } : ~RegexpCompiles(pStr)

\* C15: if the variable-keyword set, the content-keyword set or a non-empty
\* placeholder pattern fails to compile, New returns an error and no Scanner, and no
\* file is walked or dispatched; if all compile, New returns a Scanner and no error.
C15_NewFailsIffMatcherBroken ==
    mainPc # "new" =>
        \E broken \in {SomeMatcherBroken(Options)} :
            IF broken
            THEN /\ mainPc = "fatal"
                 /\ pending = << scanPath >> /\ dispatched = << >> /\ processed = {}
                 /\ workers = << >>
            ELSE mainPc # "fatal"

\* New has refused a configuration whose only fault is a placeholder pattern
C15_Witness ==
    /\ mainPc = "fatal"
    /\ \E pStr \in SeqToSet(Options.PlaceholderPatterns) \ { "" } : ~RegexpCompiles(pStr)
    /\ RegexpCompiles("(?i)\\b(" \o Join(Options.VariableKeywords, "|") \o ")\\b")
    /\ RegexpCompiles("(?i)(" \o Join(Options.ContentKeywords, "|") \o ")")

\* no two entries of prompts report the same literal of the same file (the
\* literals of one file differ in their line)
NoSharedLiteral(prompts) ==
    \A i, j \in 1..Len(prompts) :
        i < j => << prompts[i].Filepath, prompts[i].Line >>
                 # << prompts[j].Filepath, prompts[j].Line >>

SameRun(prompts, i, j, batch) ==
    \E a, b \in 1..Len(batch) :
        /\ batch[a] = prompts[i] /\ batch[b] = prompts[j]
        /\ b - a = j - i

BlankRejectedFirst(candidate, verdict) ==
    TrimSpace(candidate.Text) = "" =>
        /\ ~verdict.accept
        /\ verdict.rule = "blank"
        /\ verdict.MatchedVariableName = ""
        /\ verdict.MatchedContentWord = ""
        /\ verdict.MatchedPlaceholder = ""

\* C17: every emitted FoundPrompt has non-empty content, in either mode: a literal
\* whose decoded text is empty or only whitespace is rejected by the classifier
\* before any other rule is evaluated.
C17_BlankTextRejectedFirst ==
    /\ strict # Pending => BlankRejectedFirst(ctx, strict)
    /\ greedy # Pending => BlankRejectedFirst(ctx, greedy)
    /\ other.verdict # Pending => BlankRejectedFirst(other.ctx, other.verdict)
    /\ (strict.accept \/ greedy.accept \/ other.verdict.accept) => ctx.Text # ""

\* a whitespace-only literal bound to a variable with a keyword name, rejected as
\* blank in both modes
C17_Witness ==
    /\ ctx.Text = " "
    /\ ctx.VariableName = "prompt"
    /\ strict.rule = "blank"
    /\ greedy.rule = "blank"

(***************************************************************************)
(* The decoders of the tree-sitter extractor: a fixed series of            *)
(* strings.ReplaceAll passes over the text between the quotes.             *)
(***************************************************************************)
\* strings.ReplaceAll for a non-empty old: the occurrences are taken from the left
\* and do not overlap
RECURSIVE ReplaceFrom(_, _, _, _)
ReplaceFrom(s, i, old, new) ==
    IF i > Len(s) THEN ""
    ELSE IF i + Len(old) - 1 <= Len(s) /\ SubSeq(s, i, i + Len(old) - 1) = old
    THEN new \o ReplaceFrom(s, i + Len(old), old, new)
    ELSE SubSeq(s, i, i) \o ReplaceFrom(s, i + 1, old, new)

ReplaceAll(s, old, new) == ReplaceFrom(s, 1, old, new)

\* variant: the decoder that writes a tab escape as a newline escape
unescapePythonStringTabAsNewlineEscape(s) ==
    LET s1 == ReplaceAll(s, "\\n", "\n")
        s2 == ReplaceAll(s1, "\\t", "\\n")
        s3 == ReplaceAll(s2, "\\'", "'")
        s4 == ReplaceAll(s3, "\\\"", "\"")
    IN  ReplaceAll(s4, "\\\\", "\\")

unescapePythonString(s) ==
    LET s1 == ReplaceAll(s, "\\n", "\n")
        s2 == ReplaceAll(s1, "\\t", "\t")
        s3 == ReplaceAll(s2, "\\'", "'")
        s4 == ReplaceAll(s3, "\\\"", "\"")
    IN  ReplaceAll(s4, "\\\\", "\\")

\* the backquote, which a TLA+ string cannot hold, is written as this byte
Backquote == "@"

unescapeJSString(s) ==
    LET s1 == ReplaceAll(s, "\\n", "\n")
        s2 == ReplaceAll(s1, "\\t", "\t")
        s3 == ReplaceAll(s2, "\\'", "'")
        s4 == ReplaceAll(s3, "\\\"", "\"")
        s5 == ReplaceAll(s4, "\\" \o Backquote, Backquote)
    IN  ReplaceAll(s5, "\\\\", "\\")

\* the most pieces a text is made of
MaxPieces == 3

\* the most times a decoder is applied to its own result
MaxPasses == 2

\* the escape sequences the decoders cover, and two plain characters
Pieces == { "\\n", "\\t", "\\'", "\\\"", "\\" \o Backquote, "\\\\", "n", "'" }

RECURSIVE TextsOf(_)
TextsOf(n) ==
    IF n = 0 THEN { "" }
    ELSE { "" } \cup { piece \o rest : piece \in Pieces, rest \in TextsOf(n - 1) }

\* the classifier and the scan at rest
ClassifyIdle ==
    /\ Options = DefaultOptions
    /\ ctx = PromptContext("", "", FALSE, "", "")
    /\ strict = Pending /\ greedy = Pending
    /\ other = [ opts |-> Options, ctx |-> ctx, verdict |-> Pending ]

DecodeInit ==
    /\ raw \in TextsOf(MaxPieces)
    /\ pyPasses = << >> /\ jsPasses = << >>
    /\ language = "" /\ ancestors = << >>
    /\ resolved = Unresolved
    /\ MatchIdle
    /\ ClassifyIdle
    /\ ScanIdle

\* the text a further pass starts from
LastOf(passes) == IF passes = << >> THEN raw ELSE passes[Len(passes)]

UnescapePython ==
    /\ Len(pyPasses) < MaxPasses
    /\ pyPasses' = Append(pyPasses, unescapePythonString(LastOf(pyPasses)))
    /\ UNCHANGED << Options, classifyVars, scanVars, raw, jsPasses, language, ancestors,
                    resolved, matchVars >>

UnescapeJS ==
    /\ Len(jsPasses) < MaxPasses
    /\ jsPasses' = Append(jsPasses, unescapeJSString(LastOf(jsPasses)))
    /\ UNCHANGED << Options, classifyVars, scanVars, raw, pyPasses, language, ancestors,
                    resolved, matchVars >>

DecodeNext == UnescapePython \/ UnescapeJS

SpecDecode == DecodeInit /\ [][DecodeNext]_vars

\* every pass after the first leaves the text as the first pass made it
Settled(passes) == \A k \in 2..Len(passes) : passes[k] = passes[1]

\* C19: decoding is idempotent: for every text built from the covered sequences
\* backslash-n, backslash-t, backslash-quote and backslash-backslash, decoding the
\* decoded text again changes nothing, for unescapePythonString and unescapeJSString.
C19_DecodingIdempotent == Settled(pyPasses) /\ Settled(jsPasses)

\* C19, amended: decoding is idempotent for every text built from backslash-n,
\* backslash-t, the escaped quotes and plain characters, as long as it holds no two
\* backslashes in a row.
C19_DecodingIdempotentWithoutEscapedBackslash ==
    ~Contains(raw, "\\\\") => Settled(pyPasses) /\ Settled(jsPasses)

\* a text of three escape sequences decoded twice by both decoders
C19_Witness ==
    /\ raw = "\\n\\t\\\""
    /\ Len(pyPasses) = MaxPasses /\ Len(jsPasses) = MaxPasses
    /\ pyPasses[1] = "\n\t\""
    /\ jsPasses[2] = "\n\t\""

(***************************************************************************)
(* The context resolvers: determineContextAroundNode for the tree-sitter   *)
(* languages and the walk up varPath in ParseGoFile.  A node above the     *)
(* literal is given by its type, the field in which it holds the node      *)
(* below it on the way to the literal (holds), the text of its left side,  *)
(* name or key (name) and, for a call, the shape of the called expression. *)
(***************************************************************************)
Node(type, holds, name) ==
    [ type |-> type, holds |-> holds, name |-> name,
      funcType |-> "", object |-> "", property |-> "" ]

CallNode(type, holds, funcType, object, property) ==
    [ type |-> type, holds |-> holds, name |-> "",
      funcType |-> funcType, object |-> object, property |-> property ]

Context(varName, invFuncName, invReceiverName) ==
    [ varName |-> varName, invFuncName |-> invFuncName, invReceiverName |-> invReceiverName ]

\* the upward traversal looks at no more than this many parents
ContextDepthLimit == 4

\* a JSON-style key without its double quotes
UnquotedKey(keyContent) ==
    IF Len(keyContent) >= 2 /\ Char(keyContent, 1) = "\"" /\ Char(keyContent, Len(keyContent)) = "\""
    THEN SubSeq(keyContent, 2, Len(keyContent) - 1)
    ELSE keyContent

\* the names the node above an argument list gives: function and receiver
InvocationOf(callLikeNode) ==
    IF callLikeNode.type \in { "call_expression", "call" }
    THEN (IF callLikeNode.funcType = "identifier"
          THEN Context("", callLikeNode.property, "")
          ELSE IF callLikeNode.funcType \in { "member_expression", "attribute" }
          THEN Context("", callLikeNode.property, callLikeNode.object)
          ELSE Context("", "", ""))
    ELSE IF callLikeNode.type = "new_expression"
    THEN Context("", callLikeNode.property, "new")
    ELSE Context("", "", "")

\* the loop of determineContextAroundNode from its k-th round on: parentNode is
\* nodes[k] and current is the literal itself in the first round
RECURSIVE ContextFrom(_, _, _)
ContextFrom(nodes, k, varName) ==
    IF k > ContextDepthLimit \/ k > Len(nodes) THEN Context(varName, "", "")
    ELSE LET parentNode == nodes[k]
             captured ==
                 IF k # 1 THEN varName
                 ELSE IF /\ parentNode.type \in { "assignment_expression", "assignment" }
                         /\ parentNode.holds = "right"
                 THEN parentNode.name
                 ELSE IF parentNode.type = "variable_declarator" /\ parentNode.holds = "value"
                 THEN parentNode.name
                 ELSE IF parentNode.type = "pair" /\ parentNode.holds = "value"
                 THEN UnquotedKey(parentNode.name)
                 ELSE varName
             isArg == parentNode.type \in { "arguments", "argument_list", "tuple" }
             inv == IF isArg /\ k < Len(nodes) THEN InvocationOf(nodes[k + 1])
                    ELSE Context("", "", "")
         IN  IF inv.invFuncName # "" \/ inv.invReceiverName # ""
             THEN Context(captured, inv.invFuncName, inv.invReceiverName)
             ELSE IF parentNode.type = "throw_statement" /\ parentNode.holds = "argument"
             THEN Context(captured, "throw_literal", "")
             ELSE IF parentNode.type = "raise_statement" /\ parentNode.holds = ""
             THEN Context(captured, "raise_literal", "")
             ELSE ContextFrom(nodes, k + 1, captured)

determineContextAroundNode(nodes) == ContextFrom(nodes, 1, "")

\* the loop over varPath in ParseGoFile from the k-th node above the literal on;
\* only the literal's parent can have the literal itself as a value or an argument
RECURSIVE GoContextFrom(_, _)
GoContextFrom(nodes, k) ==
    IF k > Len(nodes) THEN Context("", "", "")
    ELSE LET parentNode == nodes[k]
         IN  IF /\ k = 1 /\ parentNode.type = "AssignStmt" /\ parentNode.holds = "Rhs"
                /\ parentNode.name # ""
             THEN Context(parentNode.name, "", "")
             ELSE IF /\ k = 1 /\ parentNode.type = "ValueSpec" /\ parentNode.holds = "Values"
                     /\ parentNode.name # ""
             THEN Context(parentNode.name, "", "")
             ELSE IF k = 1 /\ parentNode.type = "CallExpr" /\ parentNode.holds = "Args"
             THEN (IF parentNode.funcType = "Ident"
                   THEN Context("", parentNode.property, "")
                   ELSE IF parentNode.funcType = "SelectorExpr"
                   THEN Context("", parentNode.property, parentNode.object)
                   ELSE Context("", "", ""))
             ELSE GoContextFrom(nodes, k + 1)

\* the nodes that can stand directly above a node of a type, per language
ParentsOf ==
    [ javascript |->
        ( "string" :> { Node("assignment_expression", "right", "prompt"),
                        Node("variable_declarator", "value", "msg"),
                        Node("pair", "value", "\"system\""),
                        Node("arguments", "", ""),
                        Node("throw_statement", "argument", "") } ) @@
        ( "assignment_expression" :> { Node("arguments", "", ""),
                                       Node("expression_statement", "", "") } ) @@
        ( "variable_declarator" :> { Node("lexical_declaration", "", "") } ) @@
        ( "pair" :> { Node("object", "", "") } ) @@
        ( "object" :> { Node("arguments", "", ""),
                        Node("variable_declarator", "value", "cfg") } ) @@
        ( "arguments" :> { CallNode("call_expression", "arguments", "identifier", "", "ask"),
                           CallNode("call_expression", "arguments", "member_expression",
                                    "console", "log"),
                           CallNode("new_expression", "arguments", "identifier", "", "Error") } ) @@
        ( "call_expression" :> { Node("expression_statement", "", ""),
                                 Node("arguments", "", ""),
                                 Node("variable_declarator", "value", "res") } ) @@
        ( "new_expression" :> { Node("throw_statement", "argument", "") } ) @@
        ( "expression_statement" :> { Node("program", "", "") } ) @@
        ( "lexical_declaration" :> { Node("program", "", "") } ) @@
        ( "throw_statement" :> { Node("program", "", "") } ),
      python |->
        ( "string" :> { Node("assignment", "right", "prompt"),
                        Node("argument_list", "", ""),
                        Node("raise_statement", "", ""),
                        Node("pair", "value", "\"role\""),
                        Node("tuple", "", "") } ) @@
        ( "assignment" :> { Node("expression_statement", "", "") } ) @@
        ( "argument_list" :> { CallNode("call", "arguments", "identifier", "", "print"),
                               CallNode("call", "arguments", "attribute", "logger", "error") } ) @@
        ( "call" :> { Node("expression_statement", "", ""),
                      Node("argument_list", "", ""),
                      Node("raise_statement", "", ""),
                      Node("assignment", "right", "res") } ) @@
        ( "pair" :> { Node("dictionary", "", "") } ) @@
        ( "dictionary" :> { Node("argument_list", "", ""),
                            Node("assignment", "right", "cfg") } ) @@
        ( "tuple" :> { Node("assignment", "right", "pair"),
                       Node("argument_list", "", "") } ) @@
        ( "raise_statement" :> { Node("module", "", "") } ) @@
        ( "expression_statement" :> { Node("module", "", "") } ),
      go |->
        ( "BasicLit" :> { Node("AssignStmt", "Rhs", "prompt"),
                          Node("ValueSpec", "Values", "msg"),
                          CallNode("CallExpr", "Args", "Ident", "", "panic"),
                          CallNode("CallExpr", "Args", "SelectorExpr", "fmt", "Println"),
                          Node("BinaryExpr", "X", ""),
                          Node("KeyValueExpr", "Value", "") } ) @@
        ( "BinaryExpr" :> { Node("AssignStmt", "Rhs", "s"),
                            CallNode("CallExpr", "Args", "SelectorExpr", "log", "Printf") } ) @@
        ( "KeyValueExpr" :> { Node("CompositeLit", "Elts", "") } ) @@
        ( "CompositeLit" :> { Node("AssignStmt", "Rhs", "cfg"),
                              CallNode("CallExpr", "Args", "Ident", "", "run") } ) @@
        ( "CallExpr" :> { Node("ExprStmt", "X", ""),
                          Node("AssignStmt", "Rhs", "x"),
                          CallNode("CallExpr", "Args", "Ident", "", "wrap") } ) @@
        ( "AssignStmt" :> { Node("BlockStmt", "List", "") } ) @@
        ( "ExprStmt" :> { Node("BlockStmt", "List", "") } ) @@
        ( "ValueSpec" :> { Node("GenDecl", "Specs", "") } ) ]

\* the type of a string literal node, per language
LiteralType == [ javascript |-> "string", python |-> "string", go |-> "BasicLit" ]

\* the most nodes above a literal
MaxAncestors == 6

\* the chains of at most n nodes from a node of a type up to a top-level node
RECURSIVE ChainsFrom(_, _, _)
ChainsFrom(lang, type, n) ==
    IF type \notin DOMAIN ParentsOf[lang] THEN { << >> }
    ELSE IF n = 0 THEN {}
    ELSE UNION { { << parentNode >> \o rest : rest \in ChainsFrom(lang, parentNode.type, n - 1) } :
                 parentNode \in ParentsOf[lang][type] }

ResolveInit ==
    /\ language \in DOMAIN ParentsOf
    /\ ancestors \in ChainsFrom(language, LiteralType[language], MaxAncestors)
    /\ resolved = Unresolved
    /\ raw = "" /\ pyPasses = << >> /\ jsPasses = << >>
    /\ MatchIdle
    /\ ClassifyIdle
    /\ ScanIdle

ResolveTreeSitter ==
    /\ language \in { "javascript", "python" }
    /\ resolved = Unresolved
    /\ resolved' = determineContextAroundNode(ancestors)
    /\ UNCHANGED << Options, classifyVars, scanVars, raw, pyPasses, jsPasses, language,
                    ancestors, matchVars >>

ResolveGo ==
    /\ language = "go"
    /\ resolved = Unresolved
    /\ resolved' = GoContextFrom(ancestors, 1)
    /\ UNCHANGED << Options, classifyVars, scanVars, raw, pyPasses, jsPasses, language,
                    ancestors, matchVars >>

ResolveNext == ResolveTreeSitter \/ ResolveGo

SpecResolve == ResolveInit /\ [][ResolveNext]_vars

\* C20: context resolution applies only the first matching rule along the ancestor
\* walk: once a variable or key binding has been captured for a literal, no
\* function name or receiver name of an outer call is added to the resolved context.
C20_BindingStopsTheWalk ==
    (resolved # Unresolved /\ resolved.varName # "") =>
        resolved.invFuncName = "" /\ resolved.invReceiverName = ""

(***************************************************************************)
(* Properties of the permissive branch, checked under SpecClassify.        *)
(***************************************************************************)
\* C21: in permissive mode the hard exclusions are evaluated before any scoring:
\* a logging-verb call with a text under 200 characters and no placeholder match,
\* or a log-message prefix with a text under 150 characters and no placeholder
\* match, is rejected whatever its variable name, content keywords, multi-line
\* status and length, and the match fields of the FoundPrompt stay unset.
C21_ExclusionsBeforeScoring ==
    \A text \in {TrimSpace(ctx.Text)} :
        ( /\ greedy # Pending /\ text # ""
          /\ FirstPlaceholderMatch(Options.PlaceholderPatterns, text) = ""
          /\ \/ /\ ToLower(ctx.InvocationFunctionName) \in loggingMethodNames
                /\ Len(text) < LogMethodMaxLen
             \/ LogPrefixMatches(text) /\ Len(text) < LogPrefixMaxLen )
        => /\ ~greedy.accept
           /\ greedy.MatchedVariableName = "" /\ greedy.MatchedContentWord = ""
           /\ greedy.MatchedPlaceholder = ""

\* a logging call whose literal has a matching variable name, a content keyword,
\* several lines and the minimum length, rejected by the logging-verb exclusion
C21_Witness ==
    /\ greedy # Pending /\ ~greedy.accept /\ greedy.rule = "logging_method"
    /\ ctx.VariableName = "prompt" /\ Options.VariableKeywords = << "prompt" >>
    /\ ContainsKeyword(Options.ContentKeywords, ctx.Text)
    /\ IsMultiLine(ctx)
    /\ Len(TrimSpace(ctx.Text)) >= Options.MinLength

\* C22: in permissive mode, when the invocation receiver is in the logger and
\* console name set and the invoked function is a generic sink verb (write, send
\* or put), a text under 100 characters without a brace is rejected.
C22_SinkVerbsOnLoggersRejected ==
    \A text \in {TrimSpace(ctx.Text)} :
        ( /\ greedy # Pending /\ text # ""
          /\ ToLower(ctx.InvocationReceiverName) \in loggingReceiverNames
          /\ ToLower(ctx.InvocationFunctionName) \in { "write", "send", "put" }
          /\ Len(text) < LogReceiverMaxLen /\ ~Contains(text, "{") )
        => ~greedy.accept

\* C23: the long-string fallback is a last resort: a literal is accepted with the
\* marker MatchedContentWord = "long_string" only when its text is longer than
\* three times the minimum length, is multi-line or contains one of . ? ! : and
\* neither a variable keyword, a content keyword nor a placeholder pattern matched;
\* no accepted FoundPrompt carries the marker together with a variable or
\* placeholder match.  (No content keyword of the configurations considered is
\* the word long_string itself.)
C23_LongStringIsLastResort ==
    \A text \in {TrimSpace(ctx.Text)} :
        /\ ( greedy # Pending /\ greedy.accept /\ greedy.MatchedContentWord = "long_string" )
           => /\ Len(text) > LongStringFactor * Options.MinLength
              /\ IsMultiLine(ctx) \/ ContainsAny(text, ".?!:")
              /\ VarKeywordFindString(Options.VariableKeywords, ctx.VariableName) = ""
              /\ ContentWordFindString(Options.ContentKeywords, text) = ""
              /\ FirstPlaceholderMatch(Options.PlaceholderPatterns, text) = ""
        /\ \A v \in { strict, greedy } :
              ( v # Pending /\ v.accept /\ v.MatchedContentWord = "long_string" )
              => v.MatchedVariableName = "" /\ v.MatchedPlaceholder = ""

\* a long single-line sentence without any match, accepted by the fallback, for a
\* literal that is bound to a variable
C23_Witness ==
    /\ greedy # Pending /\ greedy.accept /\ greedy.rule = "long_string"
    /\ greedy.MatchedContentWord = "long_string"
    /\ ctx.VariableName # ""
    /\ ~IsMultiLine(ctx)

MaxMatches == 3

SyntaxNode(type, parentType, line, rawContent, varName, invFuncName, invReceiverName) ==
    [ type |-> type, parentType |-> parentType, line |-> line, rawContent |-> rawContent,
      varName |-> varName, invFuncName |-> invFuncName, invReceiverName |-> invReceiverName ]

\* the string nodes of
\*     const p = `act as {q}`;
\*     send("you are a bot");
\*     x = 'hello';
\* with the context determineContextAroundNode resolves for each
MatchNodes ==
    << SyntaxNode("template_string", "variable_declarator", 1,
                  Backquote \o "act as {q}" \o Backquote, "p", "", ""),
       SyntaxNode("string_fragment", "template_string", 1, "act as {q}", "", "", ""),
       SyntaxNode("string", "arguments", 2, "\"you are a bot\"", "", "send", ""),
       SyntaxNode("string_fragment", "string", 2, "you are a bot", "", "send", ""),
       SyntaxNode("string", "assignment_expression", 3, "'hello'", "x", "", "") >>

MatchedFile == "/w/a/b/z.js"

\* the content and the PromptContext the loop builds for a node of a JavaScript
\* or TypeScript file
NodeContext(node) ==
    LET rawStringNodeContent == node.rawContent
        n == Len(rawStringNodeContent)
        inner == IF n >= 2 THEN SubSeq(rawStringNodeContent, 2, n - 1) ELSE ""
        quoted(q) == n >= 1 /\ Char(rawStringNodeContent, 1) = q
                     /\ Char(rawStringNodeContent, n) = q
    IN  IF node.type = "template_string"
        THEN PromptContext(unescapeJSString(IF n >= 2 /\ quoted(Backquote) THEN inner
                                            ELSE rawStringNodeContent),
                           node.varName, TRUE, node.invFuncName, node.invReceiverName)
        ELSE IF node.type = "string_fragment"
        THEN PromptContext(unescapeJSString(rawStringNodeContent), node.varName,
                           Contains(rawStringNodeContent, "\n"),
                           node.invFuncName, node.invReceiverName)
        ELSE IF quoted("\"") \/ quoted("'")
        THEN PromptContext(unescapeJSString(inner), node.varName,
                           Contains(unescapeJSString(inner), "\n"),
                           node.invFuncName, node.invReceiverName)
        ELSE PromptContext(rawStringNodeContent, node.varName, FALSE,
                           node.invFuncName, node.invReceiverName)

\* variant: no fragment is taken for a part of a template string
IsNeverTemplateFragment(stringNode) == FALSE

\* a string_fragment whose parent is a template_string
IsTemplateFragment(stringNode) ==
    stringNode.type = "string_fragment" /\ stringNode.parentType = "template_string"

RECURSIVE MatchSequences(_)
MatchSequences(n) ==
    IF n = 0 THEN { << >> }
    ELSE MatchSequences(n - 1)
         \cup { Append(q, id) : q \in { s \in MatchSequences(n - 1) : Len(s) = n - 1 },
                                id \in DOMAIN MatchNodes }

MatchInit ==
    /\ Options \in ScanSetups
    /\ queryMatches \in MatchSequences(MaxMatches)
    /\ matchIndex = 1
    /\ processedIDs = {} /\ candidates = << >> /\ filePrompts = << >>
    /\ raw = "" /\ pyPasses = << >> /\ jsPasses = << >>
    /\ language = "javascript" /\ ancestors = << >>
    /\ resolved = Unresolved
    /\ ctx = PromptContext("", "", FALSE, "", "")
    /\ strict = Pending /\ greedy = Pending
    /\ other = [ opts |-> Options, ctx |-> ctx, verdict |-> Pending ]
    /\ ScanIdle

\* the match is the fragment of a template string: continue
SkipFragment ==
    /\ matchIndex <= Len(queryMatches)
    /\ IsTemplateFragment(MatchNodes[queryMatches[matchIndex]])
    /\ matchIndex' = matchIndex + 1
    /\ UNCHANGED << Options, classifyVars, scanVars, raw, pyPasses, jsPasses, language,
                    ancestors, resolved, queryMatches, processedIDs, candidates, filePrompts >>

\* the node of the match is in processedNodeIDs: continue
SkipProcessed ==
    /\ matchIndex <= Len(queryMatches)
    /\ ~IsTemplateFragment(MatchNodes[queryMatches[matchIndex]])
    /\ queryMatches[matchIndex] \in processedIDs
    /\ matchIndex' = matchIndex + 1
    /\ UNCHANGED << Options, classifyVars, scanVars, raw, pyPasses, jsPasses, language,
                    ancestors, resolved, queryMatches, processedIDs, candidates, filePrompts >>

\* any other node is recorded, decoded, classified and appended when accepted
ClassifyNode ==
    /\ matchIndex <= Len(queryMatches)
    /\ \E id \in {queryMatches[matchIndex]} :
       \E stringNode \in {MatchNodes[id]} :
          /\ ~IsTemplateFragment(stringNode)
          /\ id \notin processedIDs
          /\ processedIDs' = processedIDs \cup {id}
          /\ candidates' = Append(candidates, id)
          /\ \E context \in {NodeContext(stringNode)} :
             \E verdict \in {IsPotentialPrompt(Options, context)} :
                filePrompts' =
                    IF verdict.accept
                    THEN Append(filePrompts,
                                [ node |-> id,
                                  fp |-> FoundPrompt(MatchedFile,
                                                     [ line |-> stringNode.line, ctx |-> context ],
                                                     verdict) ])
                    ELSE filePrompts
    /\ matchIndex' = matchIndex + 1
    /\ UNCHANGED << Options, classifyVars, scanVars, raw, pyPasses, jsPasses, language,
                    ancestors, resolved, queryMatches >>

MatchNext == SkipFragment \/ SkipProcessed \/ ClassifyNode

SpecMatches == MatchInit /\ [][MatchNext]_vars

\* C25: a template literal is reported at most once and only through the template
\* node: a text fragment whose direct parent is a template node never becomes a
\* FoundPrompt and is passed over without being recorded as processed, while a
\* fragment whose direct parent is no template node is classified as a candidate
\* of its own.
C25_TemplateReportedThroughParentOnly ==
    /\ \A k \in 1..Len(filePrompts) :
          ~( /\ MatchNodes[filePrompts[k].node].type = "string_fragment"
             /\ MatchNodes[filePrompts[k].node].parentType = "template_string" )
    /\ \A id \in processedIDs :
          ~( /\ MatchNodes[id].type = "string_fragment"
             /\ MatchNodes[id].parentType = "template_string" )
    /\ \A i, j \in 1..Len(filePrompts) :
          ( i < j /\ MatchNodes[filePrompts[i].node].type = "template_string" )
          => filePrompts[i].node # filePrompts[j].node
    /\ \A k \in 1..(matchIndex - 1) :
          ( /\ MatchNodes[queryMatches[k]].type = "string_fragment"
            /\ MatchNodes[queryMatches[k]].parentType # "template_string" )
          => \E c \in 1..Len(candidates) : candidates[c] = queryMatches[k]

\* a file gone through in which the cursor yielded a template string, its fragment
\* and the fragment of a plain string: the template and the plain fragment are
\* reported, the template's fragment is not
C25_Witness ==
    /\ matchIndex > Len(queryMatches)
    /\ \E i, j, k \in 1..Len(queryMatches) :
          /\ MatchNodes[queryMatches[i]].type = "template_string"
          /\ MatchNodes[queryMatches[j]].type = "string_fragment"
          /\ MatchNodes[queryMatches[j]].parentType = "template_string"
          /\ MatchNodes[queryMatches[k]].type = "string_fragment"
          /\ MatchNodes[queryMatches[k]].parentType = "string"
    /\ Len(filePrompts) = 2
    /\ filePrompts[1].fp.Content = "act as {q}"
    /\ filePrompts[2].fp.Content = "you are a bot"

(***************************************************************************)
(* Scanner.isIgnored step by step: the cache lookup and the cache insert   *)
(* are each done with cacheMutex held, the compilation between them is     *)
(* done with the mutex released.  The callers are goroutines that use one  *)
(* Scanner: the walk of a ScanDirectory call, or of several calls made at  *)
(* the same time.                                                          *)
(***************************************************************************)
\* the most goroutines in isIgnored at the same time
MaxCallers == 2

\* the .gitignore files of the tree: none, one at the root, one at the root and
\* one further down
IgnoreSetups ==
    { GitignoresOf({}),
      GitignoresOf({ << "/w", "/w/a/b/z.js" >> }),
      GitignoresOf({ << "/w", "/w/a/b/z.js" >>, << "/w/a", "/w/a/y.go" >> }) }

\* the paths isIgnored is asked about
IgnoreQueries == { "/w/a/b/z.js", "/w/a/y.go", "/w/a/b" }

\* a caller at the head of the loop for currentSearchDir
AtLookup(absPath, currentSearchDir) ==
    [ pc |-> "lookup", absPath |-> absPath, currentSearchDir |-> currentSearchDir,
      ignorer |-> {}, ignored |-> FALSE, err |-> FALSE ]

IgnoreInit ==
    /\ Options \in { opts \in ScanSetups : opts.UseGitignore }
    /\ scanPath = RootDir
    /\ gitignores \in IgnoreSetups
    /\ unreadable \in { {}, { "/w/a/.gitignore" } }
    /\ callers \in [ 1..MaxCallers ->
                       { AtLookup(path, IF IsDir(path) THEN path ELSE filepathDir(path)) :
                         path \in IgnoreQueries } ]
    /\ compiled = << >>
    /\ gitIgnoreCache = << >>
    /\ malformed = {} /\ queryErrors = {} /\ walkErr = FALSE /\ defaultNumWorkers = 0
    /\ pending = << >> /\ mainPc = "idle"
    /\ filesToProcess = << >> /\ filesClosed = FALSE
    /\ workers = << >> /\ resultsChan = << >> /\ resultsClosed = FALSE
    /\ collectorDone = FALSE /\ allPrompts = << >>
    /\ returned = [ prompts |-> << >>, err |-> FALSE ]
    /\ dispatched = << >> /\ processed = {} /\ attempts = << >>
    /\ ctx = PromptContext("", "", FALSE, "", "")
    /\ strict = Pending /\ greedy = Pending
    /\ other = [ opts |-> Options, ctx |-> ctx, verdict |-> Pending ]
    /\ ExtractIdle

\* the loop condition, then Lock, the cache lookup, Unlock
IgnoreLookup(c) ==
    /\ callers[c].pc = "lookup"
    /\ \E dir \in {callers[c].currentSearchDir} :
          callers' = [callers EXCEPT ![c] =
              IF dir = "" \/ (~HasPrefix(dir, scanPath) /\ dir # scanPath)
              THEN [@ EXCEPT !.pc = "done"]
              ELSE IF dir \in DOMAIN gitIgnoreCache
              THEN [@ EXCEPT !.pc = "match", !.ignorer = gitIgnoreCache[dir]]
              ELSE [@ EXCEPT !.pc = "compile"]]
    /\ UNCHANGED << Options, classifyVars, extractVars, environment, compiled, walkErr, pending,
                    mainPc, filesToProcess, filesClosed, workers, resultsChan, resultsClosed,
                    collectorDone, allPrompts, gitIgnoreCache, returned, dispatched, processed, attempts >>

\* variant: a .gitignore that cannot be compiled ends the call with an error
IgnoreCompileAbortingOnError(c) ==
    /\ callers[c].pc = "compile"
    /\ \E dir \in {callers[c].currentSearchDir} :
          /\ compiled' = Append(compiled, dir)
          /\ callers' = [callers EXCEPT ![c] =
                IF dir \in DOMAIN gitignores /\ filepathJoin(dir, ".gitignore") \notin unreadable
                THEN [@ EXCEPT !.pc = "insert", !.ignorer = gitignores[dir]]
                ELSE [@ EXCEPT !.pc = "done", !.err = TRUE]]
    /\ UNCHANGED << Options, classifyVars, extractVars, environment, walkErr, pending,
                    mainPc, filesToProcess, filesClosed, workers, resultsChan, resultsClosed,
                    collectorDone, allPrompts, gitIgnoreCache, returned, dispatched, processed, attempts >>

\* after a miss: the compilation, with the mutex released
IgnoreCompile(c) ==
    /\ callers[c].pc = "compile"
    /\ \E dir \in {callers[c].currentSearchDir} :
          /\ compiled' = Append(compiled, dir)
          /\ callers' = [callers EXCEPT ![c] =
                [@ EXCEPT !.pc = "insert", !.ignorer = CompileIgnoreFile(dir)]]
    /\ UNCHANGED << Options, classifyVars, extractVars, environment, walkErr, pending,
                    mainPc, filesToProcess, filesClosed, workers, resultsChan, resultsClosed,
                    collectorDone, allPrompts, gitIgnoreCache, returned, dispatched, processed, attempts >>

\* Lock, the cache insert, Unlock
IgnoreInsert(c) ==
    /\ callers[c].pc = "insert"
    /\ \E dir \in {callers[c].currentSearchDir} :
          gitIgnoreCache' =
              IF dir \in DOMAIN gitIgnoreCache
              THEN [gitIgnoreCache EXCEPT ![dir] = callers[c].ignorer]
              ELSE gitIgnoreCache @@ (dir :> callers[c].ignorer)
    /\ callers' = [callers EXCEPT ![c].pc = "match"]
    /\ UNCHANGED << Options, classifyVars, extractVars, environment, compiled, walkErr, pending,
                    mainPc, filesToProcess, filesClosed, workers, resultsChan, resultsClosed,
                    collectorDone, allPrompts, returned, dispatched, processed, attempts >>

\* MatchesPath, and the step to the parent directory
IgnoreMatch(c) ==
    /\ callers[c].pc = "match"
    /\ \E dir \in {callers[c].currentSearchDir} :
       \E parentDir \in {filepathDir(dir)} :
          callers' = [callers EXCEPT ![c] =
              IF MatchesPath(callers[c].ignorer, callers[c].absPath)
              THEN [@ EXCEPT !.pc = "done", !.ignored = TRUE]
              ELSE IF dir = scanPath \/ parentDir = dir
              THEN [@ EXCEPT !.pc = "done"]
              ELSE [@ EXCEPT !.pc = "lookup", !.currentSearchDir = parentDir]]
    /\ UNCHANGED << Options, classifyVars, extractVars, environment, compiled, walkErr, pending,
                    mainPc, filesToProcess, filesClosed, workers, resultsChan, resultsClosed,
                    collectorDone, allPrompts, gitIgnoreCache, returned, dispatched, processed, attempts >>

IgnoreNext ==
    \/ \E c \in DOMAIN callers : IgnoreLookup(c)
    \/ \E c \in DOMAIN callers : IgnoreCompile(c)
    \/ \E c \in DOMAIN callers : IgnoreInsert(c)
    \/ \E c \in DOMAIN callers : IgnoreMatch(c)

SpecIgnore == IgnoreInit /\ [][IgnoreNext]_vars

NoUsableIgnoreFile(dir) ==
    dir \notin DOMAIN gitignores \/ filepathJoin(dir, ".gitignore") \in unreadable

\* C27: a malformed or missing ignore file never aborts the scan: for a directory
\* whose .gitignore is missing or cannot be compiled the cache holds the empty
\* matcher, which matches no path; no call of isIgnored ends with an error; and a
\* finished call answers as the readable .gitignore files between the path and
\* the root say, those above the failing directory included.
C27_EmptyMatcherOnFailure ==
    /\ \A dir \in DOMAIN gitIgnoreCache :
          NoUsableIgnoreFile(dir) =>
              /\ gitIgnoreCache[dir] = {}
              /\ \A path \in IgnoreQueries : ~MatchesPath(gitIgnoreCache[dir], path)
    /\ \A c \in DOMAIN callers :
          /\ ~callers[c].err
          /\ callers[c].pc = "done" =>
                \A path \in {callers[c].absPath} :
                \A start \in {IF IsDir(path) THEN path ELSE filepathDir(path)} :
                    callers[c].ignored <=>
                        \E dir \in DOMAIN DirEntries :
                            /\ dir = start \/ HasPrefix(start, dir \o "/")
                            /\ ~NoUsableIgnoreFile(dir)
                            /\ path \in gitignores[dir]

\* a finished call that met an unreadable .gitignore on its way, cached the empty
\* matcher for it and found the path ignored by the .gitignore of the root
C27_Witness ==
    /\ "/w/a/.gitignore" \in unreadable
    /\ "/w/a" \in DOMAIN gitignores
    /\ "/w/a" \in DOMAIN gitIgnoreCache
    /\ gitIgnoreCache["/w/a"] = {}
    /\ \E c \in DOMAIN callers :
          /\ callers[c].pc = "done"
          /\ callers[c].absPath = "/w/a/b/z.js"
          /\ callers[c].ignored


(***************************************************************************)
(* Further properties of a scan, checked under Spec.                       *)
(***************************************************************************)
\* C28: for every directory the walk visits, the root included, whose name is in
\* the fixed non-source set or is a hidden name other than .config and .github:
\* the directory is skipped, so nothing beneath it is ever to be visited, and no
\* file beneath it is ever put on the queue or handed to an extractor.
C28_NonSourceDirectoriesSkipped ==
    \A dir \in DOMAIN DirEntries :
        ( /\ dir = scanPath \/ HasPrefix(dir, scanPath \o "/")
          /\ \/ filepathBase(dir) \in SkippedDirNames
             \/ /\ HasPrefix(filepathBase(dir), ".")
                /\ filepathBase(dir) \notin { ".", ".config", ".github" } )
        => \A path \in SeqToSet(pending) \cup SeqToSet(dispatched)
                       \cup SeqToSet(filesToProcess) \cup processed :
               ~HasPrefix(path, dir \o "/")

\* a finished scan of a root that is a dependency directory: nothing was dispatched
C28_Witness ==
    /\ scanPath = "/w/node_modules"
    /\ mainPc = "returned"
    /\ ~returned.err
    /\ pending = << >>
    /\ dispatched = << >>
    /\ processed = {}


\* C29: no retry and no double processing: a path is put on the file queue at most
\* once; it is handed to processFile at most once, by the worker that took it from
\* the queue; what was dispatched is what was processed followed by what still
\* waits in the queue, so a processed file, failed or not, is never in the queue
\* again; and when the scan has returned every dispatched file was processed
\* exactly once.
C29_NoRetryNoDoubleProcessing ==
    /\ \A i, j \in 1..Len(dispatched) : i # j => dispatched[i] # dispatched[j]
    /\ \A i, j \in 1..Len(attempts) : i # j => attempts[i] # attempts[j]
    /\ dispatched = attempts \o filesToProcess
    /\ \A filePath \in SeqToSet(attempts) \cap SeqToSet(filesToProcess) :
          ~ProcessingFails(filePath)
    /\ mainPc = "returned" =>
          \A filePath \in SeqToSet(dispatched) :
              Cardinality({ i \in 1..Len(attempts) : attempts[i] = filePath }) = 1

\* a finished scan in which several files were processed and one of them failed
C29_Witness ==
    /\ mainPc = "returned"
    /\ Len(attempts) >= 3
    /\ \E filePath \in SeqToSet(attempts) : ProcessingFails(filePath)


\* C30: shutdown ordering is safe in every interleaving: filesToProcess is closed
\* only when the walk has sent its last path; resultsChan is closed only when every
\* worker has exited, so that no worker is left with a batch to send; in no step
\* is anything sent on a closed channel; and ScanDirectory returns allPrompts only
\* when the collector has drained resultsChan and has ended.
C30_ShutdownOrderingSafe ==
    /\ [](filesClosed => (mainPc \notin { "new", "walk" } /\ pending = << >>))
    /\ [](resultsClosed => \A w \in DOMAIN workers :
                               workers[w].pc = "done" /\ workers[w].batch = << >>)
    /\ [](mainPc = "returned" =>
              /\ filesClosed /\ resultsClosed /\ collectorDone
              /\ filesToProcess = << >> /\ resultsChan = << >>
              /\ returned.prompts = allPrompts)
    /\ [][ /\ filesClosed => /\ dispatched' = dispatched
                             /\ Len(filesToProcess') <= Len(filesToProcess)
           /\ resultsClosed => Len(resultsChan') <= Len(resultsChan) ]_vars

\* a finished scan with several workers, more files than the file queue holds and
\* findings of more than one file
C30_Witness ==
    /\ mainPc = "returned"
    /\ defaultNumWorkers >= 2
    /\ Len(dispatched) >= 3
    /\ Len(returned.prompts) >= 2
    /\ filesClosed /\ resultsClosed /\ collectorDone

====
